---- MODULE Spec2Model ----
(***************************************************************************)
(* The error router of src/src/agents: the dispatcher (ErrorRouter), its   *)
(* four remediation agents and the command runner, as a state machine.     *)
(*                                                                         *)
(* An error text is a sequence of tokens; the text it stands for is the    *)
(* tokens joined by single spaces.  Python's substring test and            *)
(* re.search are computed token by token from the table Substrings, which  *)
(* lists, for every token and its lower-cased form, the search strings of  *)
(* the code that occur inside it.  No search string of the code spans two  *)
(* tokens of the vocabulary.                                               *)
(***************************************************************************)
EXTENDS Integers, Sequences, FiniteSets, TLC

(***************************************************************************)
(* Bounds                                                                  *)
(***************************************************************************)
\* Calls of analyze/fix in one behaviour of Spec (the router keeps every report).
MaxHist == 1
\* analyze calls in one behaviour of SpecHist.
MaxCalls == 15
\* The largest limit passed to get_history in SpecHist.
MaxLimit == 10
\* Callers sharing the router in SpecConc.
NumCallers == 2
\* analyze calls in one behaviour of SpecConc.
MaxConcCalls == 2
\* Calls of analyze/fix in one behaviour of SpecLog.
MaxLog == 3
\* The largest max_attempts passed to find_available_port in SpecPort.
MaxAttempts == 3

(***************************************************************************)
(* Strings                                                                 *)
(***************************************************************************)
NL == "\n"
\* Python's None in an optional string field.
None == "<None>"
\* str(x), as an f-string formats a value that may be None.
Str(x) == IF x = None THEN "None" ELSE x
\* A text the code builds (a suggestion, a command, an output) is the sequence
\* of the pieces it is put together from; NoText is None in such a field.
NoText == <<None>>
\* None in an optional integer field.
NoInt == -1
\* int(s) raises ValueError: s has more digits than Python converts (4300 by
\* default; the line number of the token written 9{5000} has 5000).
IntRaises == -2

\* str.lower() on the strings of the vocabulary and of the code.
Lower(s) ==
    CASE s = "File \"app.py\", line 9{5000}" -> "file \"app.py\", line 9{5000}"
      [] s = "ModuleNotFoundError:" -> "modulenotfounderror:"
      [] s = "No module named" -> "no module named"
      [] s = "OSError:" -> "oserror:"
      [] s = "[WinError 10048]" -> "[winerror 10048]"
      [] s = "Connection refused" -> "connection refused"
      [] s = "ETIMEDOUT" -> "etimedout"
      [] s = "SyntaxError:" -> "syntaxerror:"
      [] s = "unexpected EOF" -> "unexpected eof"
      [] s = "IndentationError:" -> "indentationerror:"
      [] s = "ImportError:" -> "importerror:"
      [] s = "TypeError:" -> "typeerror:"
      [] s = "NoneType" -> "nonetype"
      [] s = "GPIO" -> "gpio"
      [] s = "Permission denied:" -> "permission denied:"
      [] s = "Permission denied" -> "permission denied"
      [] s = "Access" -> "access"
      [] s = "File \"app.py\", line 3" -> "file \"app.py\", line 3"
      [] s = "Building wheel for" -> "building wheel for"
      [] s = "IndentationError" -> "indentationerror"
      [] s = "ImportError" -> "importerror"
      [] s = "SyntaxError" -> "syntaxerror"
      [] s = "ModuleNotFoundError" -> "modulenotfounderror"
      [] s = "TypeError" -> "typeerror"
      [] s = "AttributeError" -> "attributeerror"
      [] s = "NameError" -> "nameerror"
      [] s = "EOL while scanning string" -> "eol while scanning string"
      [] s = "WinError 10048" -> "winerror 10048"
      [] s = "ECONNREFUSED" -> "econnrefused"
      [] s = "No such device" -> "no such device"
      [] s = "I2C" -> "i2c"
      [] s = "SPI" -> "spi"
      [] s = "EACCES" -> "eacces"
      [] s = "Operation not permitted" -> "operation not permitted"
      [] s = "Could not find a version" -> "could not find a version"
      [] s = "ERR" -> "err"
      [] s = "ValueError" -> "valueerror"
      [] OTHER -> s

\* The search strings of the code that occur in s (Python's `x in s`), for
\* every token s of the vocabulary and for its lower-cased form.
Substrings(s) ==
    CASE s = "ModuleNotFoundError:" -> {"ModuleNotFoundError", "ModuleNotFoundError:"}
      [] s = "modulenotfounderror:" -> {"err", "error", "error:", "modulenotfounderror"}
      [] s = "No module named" -> {"No module named"}
      [] s = "no module named" -> {"no module named"}
      [] s = "pip" -> {"pip"}
      [] s = "pipeline" -> {"pip"}
      [] s = "error:" -> {"err", "error", "error:"}
      [] s = "metadata-generation-failed" -> {"failed", "metadata-generation-failed"}
      [] s = "numpy" -> {"numpy"}
      [] s = "package" -> {"package"}
      [] s = "not found" -> {"not found"}
      [] s = "version" -> {"version"}
      [] s = "conflict" -> {"conflict"}
      [] s = "oserror:" -> {"err", "error", "error:"}
      [] s = "[WinError 10048]" -> {"10048"}
      [] s = "[winerror 10048]" -> {"10048", "err", "error", "winerror 10048"}
      [] s = "address already in use" -> {"address", "address already in use", "in use"}
      [] s = "Connection refused" -> {"refused"}
      [] s = "connection refused" -> {"connection refused", "refused"}
      [] s = "port" -> {"port"}
      [] s = "8000" -> {"8000"}
      [] s = "in use" -> {"in use"}
      [] s = "etimedout" -> {"etimedout"}
      [] s = "SyntaxError:" -> {"SyntaxError"}
      [] s = "syntaxerror:" -> {"err", "error", "error:", "syntaxerror"}
      [] s = "unexpected EOF" -> {"unexpected EOF"}
      [] s = "unexpected eof" -> {"unexpected eof"}
      [] s = "IndentationError:" -> {"IndentationError"}
      [] s = "indentationerror:" -> {"err", "error", "error:", "indentationerror"}
      [] s = "unexpected indent" -> {"unexpected indent"}
      [] s = "ImportError:" -> {"ImportError", "port"}
      [] s = "importerror:" -> {"err", "error", "error:", "importerror", "port"}
      [] s = "TypeError:" -> {"TypeError"}
      [] s = "typeerror:" -> {"err", "error", "error:", "typeerror"}
      [] s = "NoneType" -> {"NoneType"}
      [] s = "camera" -> {"camera"}
      [] s = "device" -> {"device"}
      [] s = "busy" -> {"busy"}
      [] s = "gpio" -> {"gpio"}
      [] s = "Permission denied:" -> {"denied"}
      [] s = "permission denied:" -> {"denied", "permission", "permission denied"}
      [] s = "Permission denied" -> {"denied"}
      [] s = "permission denied" -> {"denied", "permission", "permission denied"}
      [] s = "access" -> {"access"}
      [] s = "denied" -> {"denied"}
      [] s = "port:70000" -> {"port"}
      [] s = "port:9{5000}" -> {"port"}
      [] s = "building wheel for" -> {"building wheel for"}
      [] s = "bind" -> {"bind"}
      [] s = "failed" -> {"failed"}
      [] s = "3000" -> {"3000"}
      [] OTHER -> {}

\* error_message.lower()
LowerText(text) == [i \in 1..Len(text) |-> Lower(text[i])]

\* Python's `needle in text`.
Contains(text, needle) == \E i \in 1..Len(text) : needle \in Substrings(text[i])

\* re.search of literal parts joined by ".*": the parts occur in this order
\* on one line ("." does not match a newline).
RECURSIVE SearchFrom(_, _, _, _)
SearchFrom(parts, text, k, from) ==
    IF k > Len(parts) THEN TRUE
    ELSE \E i \in from..Len(text) :
            /\ k = 1 \/ \A m \in from..(i - 1) : text[m] # NL
            /\ parts[k] \in Substrings(text[i])
            /\ SearchFrom(parts, text, k + 1, i + 1)

\* re.search(pattern, text, re.IGNORECASE)
ReSearchI(parts, text) ==
    SearchFrom([k \in 1..Len(parts) |-> Lower(parts[k])], LowerText(text), 1, 1)

\* re.search(pattern, text)
ReSearch(parts, text) == SearchFrom(parts, text, 1, 1)

(***************************************************************************)
(* ErrorCategory and the pattern catalog                                   *)
(***************************************************************************)
DEPENDENCY == "dependency"
NETWORK == "network"
SYNTAX == "syntax"
HARDWARE == "hardware"
PERMISSION == "permission"
UNKNOWN == "unknown"

ErrorCategory == {DEPENDENCY, NETWORK, SYNTAX, HARDWARE, PERMISSION, UNKNOWN}

\* The dict PATTERNS in its insertion order; <<a, b>> stands for r"a.*b".
PATTERNS == <<
    [category |-> DEPENDENCY, patterns |-> <<
        <<"pip", "error">>, <<"npm", "ERR">>, <<"ModuleNotFoundError">>,
        <<"No module named">>, <<"metadata-generation-failed">>,
        <<"Could not find a version">>, <<"package", "not found">> >>],
    [category |-> NETWORK, patterns |-> <<
        <<"WinError 10048">>, <<"address already in use">>,
        <<"Connection refused">>, <<"ECONNREFUSED">>, <<"ETIMEDOUT">>,
        <<"bind", "failed">>, <<"port", "in use">> >>],
    [category |-> SYNTAX, patterns |-> <<
        <<"SyntaxError">>, <<"IndentationError">>, <<"NameError">>,
        <<"TypeError">>, <<"AttributeError">>, <<"ImportError">>,
        <<"ValueError">> >>],
    [category |-> HARDWARE, patterns |-> <<
        <<"GPIO">>, <<"camera", "not found">>, <<"libcamera">>,
        <<"picamera">>, <<"device", "busy">>, <<"No such device">>,
        <<"I2C">>, <<"SPI">> >>],
    [category |-> PERMISSION, patterns |-> <<
        <<"Permission denied">>, <<"Access", "denied">>, <<"EACCES">>,
        <<"requires", "admin">>, <<"Operation not permitted">> >>] >>

\* Some pattern of the k-th entry of PATTERNS matches.
CategoryMatches(k, error_message) ==
    \E p \in 1..Len(PATTERNS[k].patterns) :
        ReSearchI(PATTERNS[k].patterns[p], error_message)

\* _detect_category without the early return: the last matching entry wins.
DetectCategoryLast(error_message) ==
    LET hits == {k \in 1..Len(PATTERNS) : CategoryMatches(k, error_message)}
    IN  IF hits = {} THEN UNKNOWN
        ELSE PATTERNS[CHOOSE k \in hits : \A j \in hits : j <= k].category

\* ErrorRouter._detect_category
DetectCategory(error_message) ==
    LET hits == {k \in 1..Len(PATTERNS) : CategoryMatches(k, error_message)}
    IN  IF hits = {} THEN UNKNOWN
        ELSE PATTERNS[CHOOSE k \in hits : \A j \in hits : k <= j].category

\* ErrorRouter._detect_subcategory
DetectSubcategory(error_message, category) ==
    IF category = DEPENDENCY THEN
        IF Contains(LowerText(error_message), "numpy") THEN "numpy_compile"
        ELSE IF Contains(error_message, "metadata-generation-failed") THEN "metadata_failed"
        ELSE IF Contains(error_message, "No module named") THEN "missing_module"
        ELSE None
    ELSE IF category = NETWORK THEN
        IF \/ Contains(error_message, "10048")
           \/ Contains(LowerText(error_message), "address already in use")
        THEN "port_in_use"
        ELSE IF Contains(LowerText(error_message), "refused") THEN "connection_refused"
        ELSE None
    ELSE IF category = SYNTAX THEN
        IF Contains(error_message, "IndentationError") THEN "indentation"
        ELSE IF Contains(error_message, "ImportError") THEN "import"
        ELSE None
    ELSE None

(***************************************************************************)
(* Tokens: what the extraction patterns of the agents find in each         *)
(***************************************************************************)
\* The leading \w+ of a token (None when it starts with no word character).
WordHead(s) ==
    CASE s = "File \"app.py\", line 9{5000}" -> "File"
      [] s = "file \"app.py\", line 9{5000}" -> "file"
      [] s = "ModuleNotFoundError:" -> "ModuleNotFoundError"
      [] s = "modulenotfounderror:" -> "modulenotfounderror"
      [] s = "No module named" -> "No"
      [] s = "no module named" -> "no"
      [] s = "requests" -> "requests"
      [] s = "pip" -> "pip"
      [] s = "pipeline" -> "pipeline"
      [] s = "error:" -> "error"
      [] s = "metadata-generation-failed" -> "metadata"
      [] s = "numpy" -> "numpy"
      [] s = "package" -> "package"
      [] s = "foo" -> "foo"
      [] s = "not found" -> "not"
      [] s = "version" -> "version"
      [] s = "conflict" -> "conflict"
      [] s = "OSError:" -> "OSError"
      [] s = "oserror:" -> "oserror"
      [] s = "address already in use" -> "address"
      [] s = "Connection refused" -> "Connection"
      [] s = "connection refused" -> "connection"
      [] s = "port" -> "port"
      [] s = "8000" -> "8000"
      [] s = "in use" -> "in"
      [] s = "ETIMEDOUT" -> "ETIMEDOUT"
      [] s = "etimedout" -> "etimedout"
      [] s = "SyntaxError:" -> "SyntaxError"
      [] s = "syntaxerror:" -> "syntaxerror"
      [] s = "unexpected EOF" -> "unexpected"
      [] s = "unexpected eof" -> "unexpected"
      [] s = "while parsing" -> "while"
      [] s = "IndentationError:" -> "IndentationError"
      [] s = "indentationerror:" -> "indentationerror"
      [] s = "unexpected indent" -> "unexpected"
      [] s = "ImportError:" -> "ImportError"
      [] s = "importerror:" -> "importerror"
      [] s = "TypeError:" -> "TypeError"
      [] s = "typeerror:" -> "typeerror"
      [] s = "NoneType" -> "NoneType"
      [] s = "nonetype" -> "nonetype"
      [] s = "app.py:12" -> "app"
      [] s = "camera" -> "camera"
      [] s = "device" -> "device"
      [] s = "busy" -> "busy"
      [] s = "GPIO" -> "GPIO"
      [] s = "gpio" -> "gpio"
      [] s = "Permission denied:" -> "Permission"
      [] s = "permission denied:" -> "permission"
      [] s = "Permission denied" -> "Permission"
      [] s = "permission denied" -> "permission"
      [] s = "Access" -> "Access"
      [] s = "access" -> "access"
      [] s = "is" -> "is"
      [] s = "denied" -> "denied"
      [] s = "hello" -> "hello"
      [] s = "world" -> "world"
      [] s = "port:70000" -> "port"
      [] s = "port:9{5000}" -> "port"
      [] s = "File \"app.py\", line 3" -> "File"
      [] s = "file \"app.py\", line 3" -> "file"
      [] s = "Building wheel for" -> "Building"
      [] s = "building wheel for" -> "building"
      [] s = "bind" -> "bind"
      [] s = "failed" -> "failed"
      [] s = "3000" -> "3000"
      [] OTHER -> None

\* The name in quotes a token starts with: ['\"]([^'\"]+)['\"] at its start.
QuotedHead(s) ==
    CASE s = "'requests'" -> "requests"
      [] s = "'foo.bar'" -> "foo.bar"
      [] OTHER -> None

\* The last name in quotes inside a token.
QuotedLast(s) ==
    CASE s = "File \"app.py\", line 9{5000}" -> "app.py"
      [] s = "file \"app.py\", line 9{5000}" -> "app.py"
      [] s = "'requests'" -> "requests"
      [] s = "'foo.bar'" -> "foo.bar"
      [] s = "File \"app.py\", line 3" -> "app.py"
      [] s = "file \"app.py\", line 3" -> "app.py"
      [] OTHER -> None

\* module.split('.')[0]
TopLevel(s) ==
    CASE s = "app.py" -> "app"
      [] s = "foo.bar" -> "foo"
      [] OTHER -> s

\* The digits a token starts with, after any leading colons: [:\s]*(\d+).
SepDigits(s) ==
    CASE s = ":9999" -> "9999"
      [] s = "8000" -> "8000"
      [] s = "3000" -> "3000"
      [] OTHER -> None

\* port[:\s]+(\d+) inside one (lower-cased) token.
PortInToken(s) ==
    CASE s = "port:70000" -> "70000"
      [] s = "port:9{5000}" -> "9{5000}"
      [] OTHER -> None

\* :(\d+)\) inside one token.
ColonDigitsParen(s) ==
    CASE s = "(0.0.0.0:8080)" -> "8080"
      [] OTHER -> None

\* The last :(\d+) inside one token.
ColonDigits(s) ==
    CASE s = ":9999" -> "9999"
      [] s = "app.py:12" -> "12"
      [] s = "(0.0.0.0:8080)" -> "8080"
      [] s = "port:70000" -> "70000"
      [] s = "port:9{5000}" -> "9{5000}"
      [] OTHER -> None

\* The token s ends with the word w (and any colons after it).
EndsWith(s, w) ==
    \/ w = "port" /\ s \in {"port"}
    \/ w = "package" /\ s \in {"package"}
    \/ w = "No module named" /\ s \in {"No module named"}
    \/ w = "building wheel for" /\ s \in {"building wheel for"}

\* int() of the digit strings of the vocabulary.
ParseInt(s) ==
    CASE s = "0" -> 0
      [] s = "10048" -> 10048
      [] s = "12" -> 12
      [] s = "3" -> 3
      [] s = "3000" -> 3000
      [] s = "70000" -> 70000
      [] s = "8000" -> 8000
      [] s = "8080" -> 8080
      [] s = "9999" -> 9999
      [] s = "9{5000}" -> IntRaises
      [] OTHER -> NoInt

\* File "([^"]+)", line (\d+) inside one token.
FileLineOf(s) ==
    CASE s = "File \"app.py\", line 9{5000}" -> <<"app.py", IntRaises>>
      [] s = "File \"app.py\", line 3" -> <<"app.py", 3>>
      [] OTHER -> <<None, NoInt>>

\* ([^\s:]+\.py):(\d+) inside one token.
PyLineOf(s) ==
    CASE s = "app.py:12" -> <<"app.py", 12>>
      [] OTHER -> <<None, NoInt>>

(***************************************************************************)
(* Extraction                                                              *)
(***************************************************************************)
Min(S) == CHOOSE x \in S : \A y \in S : x <= y
Max(S) == CHOOSE x \in S : \A y \in S : y <= x

\* The tokens after token i on its line.
SameLineAfter(text, i) ==
    {j \in (i + 1)..Len(text) : \A m \in (i + 1)..j : text[m] # NL}

\* The first token after token i that is no newline (0 when there is none):
\* what follows a run of whitespace.
NextWord(text, i) ==
    LET later == {j \in (i + 1)..Len(text) : text[j] # NL}
    IN  IF later = {} THEN 0 ELSE Min(later)

\* ErrorRouter._extract_location
ExtractLocation(error_message) ==
    LET quoted == {i \in 1..Len(error_message) : FileLineOf(error_message[i])[1] # None}
        bare == {i \in 1..Len(error_message) : PyLineOf(error_message[i])[1] # None}
    IN  IF quoted # {} THEN FileLineOf(error_message[Min(quoted)])
        ELSE IF bare # {} THEN PyLineOf(error_message[Min(bare)])
        ELSE <<None, NoInt>>

\* r"port[:\s]+(\d+)" at token i of the lower-cased text: the digits, or None.
PortWordAt(low, i) ==
    IF PortInToken(low[i]) # None THEN PortInToken(low[i])
    ELSE IF EndsWith(low[i], "port") /\ NextWord(low, i) # 0
         THEN SepDigits(low[NextWord(low, i)])
         ELSE None

\* re.search(r"port[:\s]+(\d+)", text, re.IGNORECASE): the leftmost match.
SearchPortWord(low) ==
    LET at == {i \in 1..Len(low) : PortWordAt(low, i) # None}
    IN  IF at = {} THEN None ELSE PortWordAt(low, Min(at))

\* re.search(r":(\d+)\)", text, re.IGNORECASE)
SearchColonParen(low) ==
    LET at == {i \in 1..Len(low) : ColonDigitsParen(low[i]) # None}
    IN  IF at = {} THEN None ELSE ColonDigitsParen(low[Min(at)])

\* re.search(word + r".*:(\d+)", text, re.IGNORECASE): the leftmost word that
\* has a ":digits" later on its line, and (".*" is greedy) the last of them.
SearchWordColon(low, word) ==
    LET colons(i) == {j \in SameLineAfter(low, i) : ColonDigits(low[j]) # None}
        at == {i \in 1..Len(low) : word \in Substrings(low[i]) /\ colons(i) # {}}
    IN  IF at = {} THEN None ELSE ColonDigits(low[Max(colons(Min(at)))])

\* NetworkAgent._extract_port: the patterns are tried in order, and the loop
\* ends at the first match whose digits are a port in range (returned) or too
\* many for int() (IntRaises: the ValueError leaves the method).
ExtractPort(error_message) ==
    LET low == LowerText(error_message)
        found == << SearchPortWord(low), SearchColonParen(low),
                    SearchWordColon(low, "address"), SearchWordColon(low, "bind") >>
        ends == {k \in 1..Len(found) :
                    /\ found[k] # None
                    /\ \/ ParseInt(found[k]) = IntRaises
                       \/ 1 <= ParseInt(found[k]) /\ ParseInt(found[k]) <= 65535}
    IN  IF ends # {} THEN ParseInt(found[Min(ends)])
        ELSE IF Contains(error_message, "8000") THEN 8000
        ELSE IF Contains(error_message, "3000") THEN 3000
        ELSE NoInt

\* re.search(r"No module named ['\"]([^'\"]+)['\"]", text)
SearchModuleQuoted(text) ==
    LET at == {i \in 1..(Len(text) - 1) :
                /\ EndsWith(text[i], "No module named")
                /\ QuotedHead(text[i + 1]) # None}
    IN  IF at = {} THEN None ELSE QuotedHead(text[Min(at) + 1])

\* re.search(r"No module named (\w+)", text)
SearchModuleWord(text) ==
    LET at == {i \in 1..(Len(text) - 1) :
                /\ EndsWith(text[i], "No module named")
                /\ WordHead(text[i + 1]) # None}
    IN  IF at = {} THEN None ELSE WordHead(text[Min(at) + 1])

\* re.search(r"ModuleNotFoundError:.*['\"]([^'\"]+)['\"]", text)
SearchModuleAfterError(text) ==
    LET quotes(i) == {j \in SameLineAfter(text, i) : QuotedLast(text[j]) # None}
        at == {i \in 1..Len(text) :
                "ModuleNotFoundError:" \in Substrings(text[i]) /\ quotes(i) # {}}
    IN  IF at = {} THEN None ELSE QuotedLast(text[Max(quotes(Min(at)))])

\* DependencyAgent._extract_module_name
ExtractModuleName(error_message) ==
    LET found == << SearchModuleQuoted(error_message), SearchModuleWord(error_message),
                    SearchModuleAfterError(error_message) >>
        hits == {k \in 1..Len(found) : found[k] # None}
    IN  IF hits = {} THEN None ELSE TopLevel(found[Min(hits)])

\* The arrow of pip's error box (U+2570, U+2500, then a greater-than sign);
\* no token of the vocabulary holds it.
ARROW == "+->"

\* re.search(r"error:.*package[:\s]+(\w+)", text, re.IGNORECASE)
SearchErrorPackage(low) ==
    LET named(i) == {j \in SameLineAfter(low, i) :
                        /\ EndsWith(low[j], "package")
                        /\ NextWord(low, j) # 0
                        /\ WordHead(low[NextWord(low, j)]) # None}
        at == {i \in 1..Len(low) : "error:" \in Substrings(low[i]) /\ named(i) # {}}
    IN  IF at = {} THEN None ELSE WordHead(low[NextWord(low, Max(named(Min(at))))])

\* re.search(word + r"\s*(\w+)", text, re.IGNORECASE) for a word ending a token
SearchWordThenName(low, word) ==
    LET at == {i \in 1..Len(low) :
                /\ EndsWith(low[i], word)
                /\ NextWord(low, i) # 0
                /\ WordHead(low[NextWord(low, i)]) # None}
    IN  IF at = {} THEN None ELSE WordHead(low[NextWord(low, Min(at))])

\* re.search(r"Building wheel for (\w+)", text, re.IGNORECASE)
SearchBuildingWheel(low) ==
    LET at == {i \in 1..(Len(low) - 1) :
                /\ EndsWith(low[i], "building wheel for")
                /\ WordHead(low[i + 1]) # None}
    IN  IF at = {} THEN None ELSE WordHead(low[Min(at) + 1])

known_packages == <<"numpy", "opencv", "pillow", "cryptography", "scipy", "pandas">>

\* DependencyAgent._extract_package_name
ExtractPackageName(error_message) ==
    LET low == LowerText(error_message)
        found == << SearchErrorPackage(low), SearchWordThenName(low, ARROW),
                    SearchBuildingWheel(low) >>
        hits == {k \in 1..Len(found) : found[k] # None}
        known == {k \in 1..Len(known_packages) : Contains(low, known_packages[k])}
    IN  IF hits # {} THEN found[Min(hits)]
        ELSE IF known # {} THEN known_packages[Min(known)]
        ELSE None

(***************************************************************************)
(* State                                                                   *)
(***************************************************************************)
VARIABLES
    error_history,      \* ErrorRouter.error_history, the list of reports
    since_clear,        \* history variable: the reports analyze has returned since
                        \* clear_history last ran, in the order of their return
    is_windows,         \* NetworkAgent.is_windows, read once at construction
    is_raspberry_pi,    \* HardwareAgent.is_raspberry_pi, read once at construction
    clock,              \* datetime.now(): the number of reports created so far
    pc,                 \* pc[c]: where caller c is in its call
    frame               \* frame[c]: the arguments, locals and result of caller c's call

vars == <<error_history, since_clear, is_windows, is_raspberry_pi, clock, pc, frame>>

\* ErrorRouter._register_agents: the categories self.agents has a key for.
RegisteredAgents == {DEPENDENCY, NETWORK, SYNTAX, HARDWARE}

(***************************************************************************)
(* DependencyAgent                                                         *)
(***************************************************************************)
\* DependencyAgent.PACKAGE_FIXES
PACKAGE_FIXES ==
    ("numpy" :> ("metadata_failed" :> <<"pip install numpy --only-binary=all">>
              @@ "compile_error" :> <<"pip install numpy --only-binary=all">>))
 @@ ("opencv-python" :> ("metadata_failed" :> <<"pip install opencv-python-headless --only-binary=all">>))
 @@ ("pillow" :> ("compile_error" :> <<"pip install Pillow --only-binary=all">>))
 @@ ("cryptography" :> ("compile_error" :> <<"pip install cryptography --only-binary=all">>))

\* DependencyAgent.suggest_fix
DependencySuggestFix(report) ==
    LET error == LowerText(report.raw_message)
        module == ExtractModuleName(report.raw_message)
        package == ExtractPackageName(report.raw_message)
    IN  IF Contains(error, "no module named") \/ Contains(error, "modulenotfounderror") THEN
            IF module # None /\ module # "" THEN <<"pip install ", module>>
            ELSE <<"Install the missing module with pip">>
        ELSE IF Contains(error, "metadata-generation-failed") THEN
            IF /\ package # None /\ package # ""
               /\ package \in DOMAIN PACKAGE_FIXES
               /\ "metadata_failed" \in DOMAIN PACKAGE_FIXES[package]
            THEN PACKAGE_FIXES[package]["metadata_failed"]
            ELSE <<"pip install ", Str(package), " --only-binary=all">>
        ELSE IF Contains(error, "version") /\ Contains(error, "conflict") THEN
            <<"pip install --upgrade <package> or check requirements.txt for conflicts">>
        ELSE IF Contains(error, "pip") THEN
            <<"Try: pip install --upgrade pip, then retry the install">>
        ELSE <<"Check package name and try reinstalling">>

\* can_auto_fix with an allow-list that lets a report of no subcategory in.
DependencyCanAutoFixUnnamed(report) ==
    report.subcategory \in {"numpy_compile", "metadata_failed", "missing_module", None}

\* DependencyAgent.can_auto_fix
DependencyCanAutoFix(report) ==
    report.subcategory \in {"numpy_compile", "metadata_failed", "missing_module"}

(***************************************************************************)
(* NetworkAgent                                                            *)
(***************************************************************************)
\* NetworkAgent.suggest_fix
NetworkSuggestFix(report) ==
    LET error == LowerText(report.raw_message)
        port == ExtractPort(report.raw_message)
    IN  IF Contains(report.raw_message, "10048") \/ Contains(error, "address already in use") THEN
            IF port # NoInt /\ port # 0 THEN
                IF is_windows
                THEN <<"netstat -ano | findstr :", ToString(port),
                       " to find PID, then taskkill /PID <pid> /F">>
                ELSE <<"lsof -i :", ToString(port), " to find process, then kill -9 <pid>">>
            ELSE <<"Find and kill the process using the port, or use a different port">>
        ELSE IF Contains(error, "connection refused") \/ Contains(error, "econnrefused") THEN
            <<"Ensure the target service is running and accepting connections">>
        ELSE IF Contains(error, "timeout") \/ Contains(error, "etimedout") THEN
            <<"Check network connectivity and firewall rules">>
        ELSE IF Contains(error, "getaddrinfo") \/ Contains(error, "name resolution") THEN
            <<"Check DNS settings and network connectivity">>
        ELSE <<"Check network configuration and firewall settings">>

\* NetworkAgent.can_auto_fix
NetworkCanAutoFix(report) == report.subcategory = "port_in_use"

(***************************************************************************)
(* SyntaxAgent                                                             *)
(***************************************************************************)
\* SyntaxAgent.COMMON_FIXES in its insertion order; <<a, b>> stands for r"a.*b".
COMMON_FIXES == <<
    [pattern |-> <<"unexpected EOF">>,
     fix |-> "Check for missing closing brackets, parentheses, or quotes"],
    [pattern |-> <<"invalid syntax">>,
     fix |-> "Check for typos, missing colons, or incorrect operators"],
    [pattern |-> <<"expected an indented block">>,
     fix |-> "Add proper indentation after if/for/def/class statements"],
    [pattern |-> <<"unindent does not match">>,
     fix |-> "Fix inconsistent indentation (spaces vs tabs)"],
    [pattern |-> <<"name ", " is not defined">>,
     fix |-> "Check variable spelling or add missing import"],
    [pattern |-> <<"has no attribute">>,
     fix |-> "Check attribute name spelling or object type"],
    [pattern |-> <<"object is not callable">>,
     fix |-> "Remove parentheses or check if object is a function"],
    [pattern |-> <<"missing ", " required positional argument">>,
     fix |-> "Add the required argument to the function call"],
    [pattern |-> <<"takes ", " positional arguments but ", " were given">>,
     fix |-> "Remove extra arguments from function call"],
    [pattern |-> <<"cannot import name">>,
     fix |-> "Check import path and module structure"],
    [pattern |-> <<"circular import">>,
     fix |-> "Restructure imports or use lazy imports"] >>

\* SyntaxAgent._format_location
FormatLocation(report) ==
    LET has_path == report.file_path # None /\ report.file_path # ""
        has_line == report.line_number # NoInt /\ report.line_number # 0
    IN  IF has_path /\ has_line
        THEN <<" at ", report.file_path, ":", ToString(report.line_number)>>
        ELSE IF has_path THEN <<" in ", report.file_path>>
        ELSE IF has_line THEN <<" at line ", ToString(report.line_number)>>
        ELSE << >>

\* SyntaxAgent._analyze_syntax_error
AnalyzeSyntaxError(error, report) ==
    LET location == FormatLocation(report)
    IN  IF Contains(error, "EOL while scanning string")
        THEN <<"Missing closing quote for string">> \o location
        ELSE IF Contains(error, "unexpected EOF")
        THEN <<"Missing closing bracket, parenthesis, or quote">> \o location
        ELSE IF Contains(error, "invalid character")
        THEN <<"Remove invalid character (possibly copied from web/doc)">> \o location
        ELSE IF Contains(error, "f-string")
        THEN <<"Check f-string syntax - no backslashes or nested quotes">> \o location
        ELSE <<"Check syntax near">> \o location

\* SyntaxAgent._analyze_indentation_error
AnalyzeIndentationError(error, report) ==
    LET location == FormatLocation(report)
    IN  IF Contains(error, "expected an indented block")
        THEN <<"Add 4 spaces of indentation after the colon">> \o location
        ELSE IF Contains(error, "unindent does not match")
        THEN <<"Fix indentation level - ensure consistent use of spaces (not tabs)">> \o location
        ELSE IF Contains(error, "unexpected indent")
        THEN <<"Remove extra indentation">> \o location
        ELSE <<"Fix indentation">> \o location \o <<" - use 4 spaces per level">>

\* The name a token starts with, in quotes or not: ['\"]?(\w+), where \w+
\* stops at the first dot of a dotted name.
NameHead(s) == IF QuotedHead(s) # None THEN TopLevel(QuotedHead(s)) ELSE WordHead(s)

\* The token after the leftmost token that ends with the words `phrase` and is
\* followed by a name (None when there is none).
NameAfter(error, phrase) ==
    LET at == {i \in 1..(Len(error) - 1) :
                EndsWith(error[i], phrase) /\ NameHead(error[i + 1]) # None}
    IN  IF at = {} THEN None ELSE NameHead(error[Min(at) + 1])

\* SyntaxAgent._analyze_import_error
AnalyzeImportError(error, report) ==
    IF NameAfter(error, "cannot import name") # None
    THEN <<"'", NameAfter(error, "cannot import name"),
           "' doesn't exist in the module. Check spelling or module version.">>
    ELSE IF NameAfter(error, "No module named") # None
    THEN <<"Install missing module: pip install ", NameAfter(error, "No module named")>>
    ELSE <<"Check import statement and module installation">>

\* SyntaxAgent._analyze_type_error
AnalyzeTypeError(error, report) ==
    IF Contains(error, "NoneType")
    THEN <<"A variable is None when it shouldn't be. Add a null check.">>
    ELSE IF Contains(error, "not subscriptable")
    THEN <<"Can't use [] on this type. Check the object type.">>
    ELSE IF Contains(error, "not iterable")
    THEN <<"Can't iterate over this object. Check if it's a list/tuple/dict.">>
    ELSE IF Contains(error, "argument")
    THEN <<"Wrong number or type of arguments passed to function.">>
    ELSE <<"Type mismatch - check variable types">>

\* SyntaxAgent._analyze_attribute_error: its pattern holds "has no attribute",
\* which COMMON_FIXES matches first, so suggest_fix reaches only the last line.
AnalyzeAttributeError(error, report) ==
    IF ReSearch(<<"' object has no attribute '">>, error)
    THEN <<"'", NameAfter(error, "'"), "' doesn't have '",
           NameAfter(error, "' object has no attribute"),
           "'. Check spelling or object type.">>
    ELSE <<"Object doesn't have this attribute. Check object type and attribute name.">>

\* SyntaxAgent._analyze_name_error: its pattern is matched by the COMMON_FIXES
\* entry "name .* is not defined" first, so suggest_fix reaches only the last line.
AnalyzeNameError(error, report) ==
    IF ReSearch(<<"name ", " is not defined">>, error) /\ NameAfter(error, "name") # None
    THEN <<"'", NameAfter(error, "name"),
           "' is not defined. Check spelling, add import, or define it first.">>
    ELSE <<"Variable not defined. Check spelling or add import statement.">>

\* SyntaxAgent.suggest_fix
SyntaxSuggestFix(report) ==
    LET error == report.raw_message
        hits == {k \in 1..Len(COMMON_FIXES) : ReSearchI(COMMON_FIXES[k].pattern, error)}
    IN  IF hits # {} THEN <<COMMON_FIXES[Min(hits)].fix>> \o FormatLocation(report)
        ELSE IF Contains(error, "SyntaxError") THEN AnalyzeSyntaxError(error, report)
        ELSE IF Contains(error, "IndentationError") THEN AnalyzeIndentationError(error, report)
        ELSE IF Contains(error, "ImportError") \/ Contains(error, "ModuleNotFoundError")
        THEN AnalyzeImportError(error, report)
        ELSE IF Contains(error, "TypeError") THEN AnalyzeTypeError(error, report)
        ELSE IF Contains(error, "AttributeError") THEN AnalyzeAttributeError(error, report)
        ELSE IF Contains(error, "NameError") THEN AnalyzeNameError(error, report)
        ELSE <<"Review the error at ">> \o FormatLocation(report)

\* can_auto_fix offering indentation errors for automatic repair.
SyntaxCanAutoFixIndentation(report) == report.subcategory = "indentation"

\* SyntaxAgent.can_auto_fix
SyntaxCanAutoFix(report) == FALSE

(***************************************************************************)
(* HardwareAgent                                                           *)
(***************************************************************************)
\* HardwareAgent.HARDWARE_FIXES
HARDWARE_FIXES ==
    [camera |-> ("not found" :> "Check camera ribbon cable connection and enable camera in raspi-config"
              @@ "busy" :> "Another process is using the camera. Kill it with: sudo pkill -f libcamera"
              @@ "permission" :> "Add user to video group: sudo usermod -a -G video $USER"
              @@ "mmal" :> "Legacy camera. Enable legacy camera in raspi-config or use libcamera"),
     gpio |-> ("permission" :> "Run with sudo or add user to gpio group: sudo usermod -a -G gpio $USER"
            @@ "busy" :> "GPIO pin already in use. Check for conflicting processes."
            @@ "not found" :> "Check if running on Raspberry Pi. GPIO not available on other systems."),
     i2c |-> ("not found" :> "Enable I2C in raspi-config: sudo raspi-config -> Interface Options -> I2C"
           @@ "permission" :> "Add user to i2c group: sudo usermod -a -G i2c $USER"
           @@ "no device" :> "Check I2C device address with: i2cdetect -y 1"),
     spi |-> ("not found" :> "Enable SPI in raspi-config: sudo raspi-config -> Interface Options -> SPI"
           @@ "permission" :> "Add user to spi group: sudo usermod -a -G spi $USER")]

\* HardwareAgent._suggest_camera_fix
SuggestCameraFix(error) ==
    IF Contains(error, "not found") \/ Contains(error, "no cameras")
    THEN <<HARDWARE_FIXES.camera["not found"]>>
    ELSE IF Contains(error, "busy") \/ Contains(error, "in use")
    THEN <<HARDWARE_FIXES.camera["busy"]>>
    ELSE IF Contains(error, "permission") \/ Contains(error, "access")
    THEN <<HARDWARE_FIXES.camera["permission"]>>
    ELSE IF Contains(error, "mmal") THEN <<HARDWARE_FIXES.camera["mmal"]>>
    ELSE <<"Check camera connection: 1) Power off Pi, 2) Reseat ribbon cable, 3) Enable camera in raspi-config">>

\* HardwareAgent._suggest_gpio_fix
SuggestGpioFix(error) ==
    IF Contains(error, "permission") \/ Contains(error, "access")
    THEN <<HARDWARE_FIXES.gpio["permission"]>>
    ELSE IF Contains(error, "busy") \/ Contains(error, "in use")
    THEN <<HARDWARE_FIXES.gpio["busy"]>>
    ELSE <<HARDWARE_FIXES.gpio["not found"]>>

\* HardwareAgent._suggest_i2c_fix
SuggestI2cFix(error) ==
    IF Contains(error, "no such file") \/ Contains(error, "not found")
    THEN <<HARDWARE_FIXES.i2c["not found"]>>
    ELSE IF Contains(error, "permission") THEN <<HARDWARE_FIXES.i2c["permission"]>>
    ELSE IF Contains(error, "no device") \/ Contains(error, "no ack")
    THEN <<HARDWARE_FIXES.i2c["no device"]>>
    ELSE <<"Check I2C wiring and device address">>

\* HardwareAgent._suggest_spi_fix
SuggestSpiFix(error) ==
    IF Contains(error, "no such file") \/ Contains(error, "not found")
    THEN <<HARDWARE_FIXES.spi["not found"]>>
    ELSE IF Contains(error, "permission") THEN <<HARDWARE_FIXES.spi["permission"]>>
    ELSE <<"Check SPI wiring and enable SPI in raspi-config">>

\* HardwareAgent._suggest_device_fix
SuggestDeviceFix(error) ==
    IF Contains(error, "not found") \/ Contains(error, "no such")
    THEN <<"Device not detected. Check physical connection and power.">>
    ELSE IF Contains(error, "busy")
    THEN <<"Device in use by another process. Check running processes.">>
    ELSE IF Contains(error, "permission")
    THEN <<"Permission denied. Run with sudo or add user to appropriate group.">>
    ELSE <<"Check device connection, power, and drivers">>

\* HardwareAgent.suggest_fix
HardwareSuggestFix(report) ==
    LET error == LowerText(report.raw_message)
    IN  IF \E cam \in {"camera", "libcamera", "picamera", "mmal"} : Contains(error, cam)
        THEN SuggestCameraFix(error)
        ELSE IF Contains(error, "gpio") THEN SuggestGpioFix(error)
        ELSE IF Contains(error, "i2c") THEN SuggestI2cFix(error)
        ELSE IF Contains(error, "spi") THEN SuggestSpiFix(error)
        ELSE IF Contains(error, "device") THEN SuggestDeviceFix(error)
        ELSE <<"Check hardware connections and ensure drivers are installed">>

\* can_auto_fix taking every camera error for one it can fix.
HardwareCanAutoFixCamera(report) ==
    LET error == LowerText(report.raw_message)
    IN  Contains(error, "busy") \/ Contains(error, "in use") \/ Contains(error, "camera")

\* HardwareAgent.can_auto_fix
HardwareCanAutoFix(report) ==
    LET error == LowerText(report.raw_message)
    IN  Contains(error, "busy") \/ Contains(error, "in use")

(***************************************************************************)
(* ErrorRouter.analyze                                                     *)
(***************************************************************************)
\* agent.suggest_fix(report) of the agent registered for the report's category
SuggestFix(report) ==
    CASE report.category = DEPENDENCY -> DependencySuggestFix(report)
      [] report.category = NETWORK -> NetworkSuggestFix(report)
      [] report.category = SYNTAX -> SyntaxSuggestFix(report)
      [] report.category = HARDWARE -> HardwareSuggestFix(report)

\* agent.can_auto_fix(report) of the agent registered for the report's category
CanAutoFix(report) ==
    CASE report.category = DEPENDENCY -> DependencyCanAutoFix(report)
      [] report.category = NETWORK -> NetworkCanAutoFix(report)
      [] report.category = SYNTAX -> SyntaxCanAutoFix(report)
      [] report.category = HARDWARE -> HardwareCanAutoFix(report)

\* ErrorReport with auto_fixable defaulting to True.
ErrorReportAutoFixable(raw_message, category, subcategory, file_path, line_number, now) ==
    [raw_message |-> raw_message, category |-> category, subcategory |-> subcategory,
     file_path |-> file_path, line_number |-> line_number,
     suggested_fix |-> NoText, auto_fixable |-> TRUE, timestamp |-> now]

\* ErrorReport(raw_message, category, subcategory, file_path, line_number): the
\* other fields take their defaults and __post_init__ stamps the report.
ErrorReport(raw_message, category, subcategory, file_path, line_number, now) ==
    [raw_message |-> raw_message, category |-> category, subcategory |-> subcategory,
     file_path |-> file_path, line_number |-> line_number,
     suggested_fix |-> NoText, auto_fixable |-> FALSE, timestamp |-> now]

\* analyze that remembers what it has seen: a text already in the history is
\* no longer offered for auto-fix.
DiagnoseOnce(error_message, now) ==
    LET category == DetectCategory(error_message)
        subcategory == DetectSubcategory(error_message, category)
        location == ExtractLocation(error_message)
        report == ErrorReport(error_message, category, subcategory,
                              location[1], location[2], now)
        seen == \E i \in 1..Len(error_history) : error_history[i].raw_message = error_message
    IN  IF category \in RegisteredAgents
        THEN [report EXCEPT !.suggested_fix = SuggestFix(report),
                            !.auto_fixable = CanAutoFix(report) /\ ~seen]
        ELSE report

\* analyze with a word of advice for the categories no agent is registered for.
DiagnoseAdvising(error_message, now) ==
    LET category == DetectCategory(error_message)
        subcategory == DetectSubcategory(error_message, category)
        location == ExtractLocation(error_message)
        report == ErrorReport(error_message, category, subcategory,
                              location[1], location[2], now)
    IN  IF category \in RegisteredAgents
        THEN [report EXCEPT !.suggested_fix = SuggestFix(report),
                            !.auto_fixable = CanAutoFix(report)]
        ELSE IF category = PERMISSION
        THEN [report EXCEPT !.suggested_fix = <<"Run with elevated permissions">>]
        ELSE report

\* ErrorRouter.analyze up to the append: classify, build the report, and let
\* the category's agent (if one is registered) fill in the suggestion and the flag.
Diagnose(error_message, now) ==
    LET category == DetectCategory(error_message)
        subcategory == DetectSubcategory(error_message, category)
        location == ExtractLocation(error_message)
        report == ErrorReport(error_message, category, subcategory,
                              location[1], location[2], now)
    IN  IF category \in RegisteredAgents
        THEN [report EXCEPT !.suggested_fix = SuggestFix(report),
                            !.auto_fixable = CanAutoFix(report)]
        ELSE report

\* NetworkAgent.suggest_fix raises instead of returning: for a port-in-use text
\* it calls _extract_port, whose int() is outside any try.
NetworkSuggestFixRaises(error_message) ==
    /\ \/ Contains(error_message, "10048")
       \/ Contains(LowerText(error_message), "address already in use")
    /\ ExtractPort(error_message) = IntRaises

\* analyze raises instead of returning: _extract_location hands the digits of
\* the first location it finds to int(), outside any try, and so does the
\* suggest_fix of the Network agent with the digits of a port.
AnalyzeRaises(error_message) ==
    \/ ExtractLocation(error_message)[2] = IntRaises
    \/ /\ DetectCategory(error_message) = NETWORK
       /\ NetworkSuggestFixRaises(error_message)

(***************************************************************************)
(* FixResult and the command runner                                        *)
(***************************************************************************)
\* FixResult(success, action_taken, output=None, error=None)
FixResult(success, action_taken, output, error) ==
    [success |-> success, action_taken |-> action_taken, output |-> output, error |-> error]

\* What subprocess.run can do with a command: complete with an exit status and
\* the captured streams, run into the 120 s timeout, or fail to start.
Outcomes == {
    [kind |-> "completed", returncode |-> 0, stdout |-> <<"4242\n">>, stderr |-> <<"">>],
    [kind |-> "completed", returncode |-> 0,
     stdout |-> <<"  TCP    0.0.0.0:8000    0.0.0.0:0    LISTENING    4242\n">>, stderr |-> <<"">>],
    [kind |-> "completed", returncode |-> 0, stdout |-> <<"">>, stderr |-> <<"">>],
    [kind |-> "completed", returncode |-> 1, stdout |-> <<"">>, stderr |-> <<"No such process">>],
    [kind |-> "TimeoutExpired", returncode |-> NoInt, stdout |-> NoText, stderr |-> NoText],
    [kind |-> "OSError", returncode |-> NoInt, stdout |-> NoText, stderr |-> NoText] }

\* str(e) of the exception subprocess.run raises when the command cannot start.
ExceptionText(outcome) == <<"[Errno 2] No such file or directory">>

\* BaseErrorAgent.run_command: (success, output) in every outcome; `raised`
\* tells whether an exception leaves the method.
RunCommand(outcome) ==
    IF outcome.kind = "completed" THEN
        LET success == outcome.returncode = 0
        IN  [raised |-> FALSE, success |-> success,
             output |-> IF success THEN outcome.stdout ELSE outcome.stderr]
    ELSE IF outcome.kind = "TimeoutExpired" THEN
        [raised |-> FALSE, success |-> FALSE, output |-> <<"Command timed out">>]
    ELSE [raised |-> FALSE, success |-> FALSE, output |-> ExceptionText(outcome)]

\* `not output` for a captured text: None or the empty string.
Empty(text) == text = NoText \/ text = << >> \/ text = <<"">>

\* int(output.strip().split('\n')[0]) for the outputs of the command runner:
\* the process id, or NoInt where int() raises ValueError (lsof -t prints one
\* process id per line).
FirstLineInt(output) ==
    CASE output = <<"4242\n">> -> 4242
      [] OTHER -> NoInt

\* The Windows branch of _find_process_on_port: int(parts[-1]) of the first
\* line that has at least five fields and holds "LISTENING", else NoInt.
ListeningPid(output) ==
    CASE output = <<"  TCP    0.0.0.0:8000    0.0.0.0:0    LISTENING    4242\n">> -> 4242
      [] OTHER -> NoInt

\* output.strip()
Strip(output) ==
    CASE output = <<"4242\n">> -> <<"4242">>
      [] output = <<"  TCP    0.0.0.0:8000    0.0.0.0:0    LISTENING    4242\n">>
            -> <<"TCP    0.0.0.0:8000    0.0.0.0:0    LISTENING    4242">>
      [] OTHER -> output

\* output[:200]: every output of Outcomes is shorter than 200 characters.
First200(output) == output

(***************************************************************************)
(* Callers and their calls                                                 *)
(***************************************************************************)
\* A report-shaped value for "no report yet".
NoReport == ErrorReport(<< >>, None, None, None, NoInt, NoInt)
\* A result-shaped value for "no result yet".
NoResult == FixResult(FALSE, NoText, NoText, NoText)

\* The arguments of a call, its locals, and what it returned:
\*   report    the report analyze built (its return value)
\*   result    the FixResult fix returned
\*   listing   the list get_history returned
\*   executes  how many times the call entered an agent's execute_fix
\*   ran       the commands the call handed to run_command, in order
\*   succeeded the success run_command returned for each of them
\*   probed    the ports find_available_port handed to check_port_available,
\*             in order, and `available` what it returned for each of them
\*   found     the port find_available_port returned (NoInt for None)
NewFrame(op, error_message, auto_approve, limit) ==
    [op |-> op, error_message |-> error_message, auto_approve |-> auto_approve,
     limit |-> limit, report |-> NoReport, result |-> NoResult, listing |-> << >>,
     executes |-> 0, ran |-> << >>, succeeded |-> << >>, port |-> NoInt, pid |-> NoInt,
     start_port |-> NoInt, max_attempts |-> 0, probed |-> << >>, available |-> << >>,
     found |-> NoInt,
     killed |-> << >>, lines |-> << >>]

IdleFrame == NewFrame("none", << >>, FALSE, 0)

\* Python's list[start:] (start may be negative).
SliceFrom(list, start) ==
    LET n == Len(list)
        from == IF start < 0 THEN (IF n + start < 0 THEN 0 ELSE n + start)
                ELSE (IF start > n THEN n ELSE start)
    IN  SubSeq(list, from + 1, n)

\* get_history returning the first `limit` reports: self.error_history[:limit]
get_history_oldest(history, limit) ==
    SubSeq(history, 1, IF limit < Len(history) THEN limit ELSE Len(history))

\* ErrorRouter.get_history: self.error_history[-limit:]
get_history(history, limit) == SliceFrom(history, 0 - limit)

\* f"{x}" of an optional text
TextStr(text) == IF text = NoText THEN <<"None">> ELSE text

\* FixGate without the check of auto_fixable and auto_approve.
FixGateNoPolicy(report, auto_approve) ==
    IF report.category = UNKNOWN
    THEN [success |-> FALSE, action_taken |-> <<"none">>, output |-> NoText,
          error |-> <<"Could not categorize error">>]
    ELSE IF report.category \notin RegisteredAgents
    THEN [success |-> FALSE, action_taken |-> <<"none">>, output |-> NoText,
          error |-> <<"No agent registered for ", report.category>>]
    ELSE NoResult

\* FixGate without the checks of the category: only the policy is asked.
FixGateNoCategory(report, auto_approve) ==
    IF ~report.auto_fixable /\ ~auto_approve
    THEN [success |-> FALSE, action_taken |-> <<"none">>, output |-> NoText,
          error |-> <<"Manual fix required: ">> \o TextStr(report.suggested_fix)]
    ELSE NoResult

\* FixGate refusing without saying what the suggested fix is.
FixGateNoSuggestion(report, auto_approve) ==
    IF report.category = UNKNOWN
    THEN [success |-> FALSE, action_taken |-> <<"none">>, output |-> NoText,
          error |-> <<"Could not categorize error">>]
    ELSE IF report.category \notin RegisteredAgents
    THEN [success |-> FALSE, action_taken |-> <<"none">>, output |-> NoText,
          error |-> <<"No agent registered for ", report.category>>]
    ELSE IF ~report.auto_fixable /\ ~auto_approve
    THEN [success |-> FALSE, action_taken |-> <<"none">>, output |-> NoText,
          error |-> <<"Manual fix required">>]
    ELSE NoResult

\* FixGate letting only an approved call through, auto_fixable or not.
FixGateApprovalOnly(report, auto_approve) ==
    IF report.category = UNKNOWN
    THEN [success |-> FALSE, action_taken |-> <<"none">>, output |-> NoText,
          error |-> <<"Could not categorize error">>]
    ELSE IF report.category \notin RegisteredAgents
    THEN [success |-> FALSE, action_taken |-> <<"none">>, output |-> NoText,
          error |-> <<"No agent registered for ", report.category>>]
    ELSE IF ~auto_approve
    THEN [success |-> FALSE, action_taken |-> <<"none">>, output |-> NoText,
          error |-> <<"Manual fix required: ">> \o TextStr(report.suggested_fix)]
    ELSE NoResult

\* The decision fix takes on the report analyze returned: the FixResult it
\* returns at once, or NoResult when it goes on to the agent.
FixGate(report, auto_approve) ==
    IF report.category = UNKNOWN
    THEN FixResult(FALSE, <<"none">>, NoText, <<"Could not categorize error">>)
    ELSE IF report.category \notin RegisteredAgents
    THEN FixResult(FALSE, <<"none">>, NoText,
                   <<"No agent registered for ", report.category>>)
    ELSE IF ~report.auto_fixable /\ ~auto_approve
    THEN FixResult(FALSE, <<"none">>, NoText,
                   <<"Manual fix required: ">> \o TextStr(report.suggested_fix))
    ELSE NoResult

\* The call of caller c returns `result`.
Return(c, result) ==
    /\ pc' = [pc EXCEPT ![c] = "idle"]
    /\ frame' = [frame EXCEPT ![c].result = result]

\* The call of caller c hands `command` to run_command, which ends in `run`:
\* an exception leaving run_command ends the call; otherwise the call goes on
\* to `next` with the frame `after`.
Ran(c, command, run, next, after) ==
    IF run.raised
    THEN /\ pc' = [pc EXCEPT ![c] = "raised"]
         /\ frame' = [frame EXCEPT ![c].ran = Append(@, command)]
    ELSE /\ pc' = [pc EXCEPT ![c] = next]
         /\ frame' = [frame EXCEPT ![c] = [after EXCEPT !.ran = Append(@, command),
                                                       !.succeeded = Append(@, run.success)]]

\* Caller c has no call in progress: its last call returned or raised.
AtRest(c) == pc[c] \in {"idle", "raised"}

\* A caller invokes error_router.analyze(error_message).
CallAnalyze(c, error_message) ==
    /\ AtRest(c)
    /\ pc' = [pc EXCEPT ![c] = "analyze"]
    /\ frame' = [frame EXCEPT ![c] = NewFrame("analyze", error_message, FALSE, 0)]
    /\ UNCHANGED <<error_history, since_clear, is_windows, is_raspberry_pi, clock>>

\* A caller invokes error_router.fix(error_message, auto_approve), which
\* starts with self.analyze(error_message).
CallFix(c, error_message, auto_approve) ==
    /\ AtRest(c)
    /\ pc' = [pc EXCEPT ![c] = "analyze"]
    /\ frame' = [frame EXCEPT ![c] = NewFrame("fix", error_message, auto_approve, 0)]
    /\ UNCHANGED <<error_history, since_clear, is_windows, is_raspberry_pi, clock>>

\* ErrorRouter.analyze, up to the append: the report is built and stamped,
\* unless an exception leaves analyze (and fix, when fix made the call).
AnalyzeBuild(c) ==
    /\ pc[c] = "analyze"
    /\ IF AnalyzeRaises(frame[c].error_message)
       THEN /\ pc' = [pc EXCEPT ![c] = "raised"]
            /\ UNCHANGED <<frame, clock>>
       ELSE /\ pc' = [pc EXCEPT ![c] = "append"]
            /\ frame' = [frame EXCEPT ![c].report = Diagnose(frame[c].error_message, clock)]
            /\ clock' = clock + 1
    /\ UNCHANGED <<error_history, since_clear, is_windows, is_raspberry_pi>>

\* The append as a read and a later write: the list analyze read when it built
\* its report, plus the report. What others appended in between is lost.
AnalyzeAppendStale(c) ==
    /\ pc[c] = "append"
    /\ error_history' = Append(SelectSeq(error_history,
                                   LAMBDA r : r.timestamp < frame[c].report.timestamp),
                               frame[c].report)
    /\ since_clear' = Append(since_clear, frame[c].report)
    /\ pc' = [pc EXCEPT ![c] = IF frame[c].op = "fix" THEN "decide" ELSE "idle"]
    /\ UNCHANGED <<is_windows, is_raspberry_pi, clock, frame>>

\* analyze keeping only the reports it could categorize.
AnalyzeAppendKnown(c) ==
    /\ pc[c] = "append"
    /\ error_history' = IF frame[c].report.category = UNKNOWN THEN error_history
                        ELSE Append(error_history, frame[c].report)
    /\ since_clear' = IF frame[c].report.category = UNKNOWN THEN since_clear
                      ELSE Append(since_clear, frame[c].report)
    /\ pc' = [pc EXCEPT ![c] = IF frame[c].op = "fix" THEN "decide" ELSE "idle"]
    /\ UNCHANGED <<is_windows, is_raspberry_pi, clock, frame>>

\* analyze keeping the report of a direct call only: what fix has analyzed is
\* not logged.
AnalyzeAppendDirect(c) ==
    /\ pc[c] = "append"
    /\ error_history' = IF frame[c].op = "fix" THEN error_history
                        ELSE Append(error_history, frame[c].report)
    /\ since_clear' = Append(since_clear, frame[c].report)
    /\ pc' = [pc EXCEPT ![c] = IF frame[c].op = "fix" THEN "decide" ELSE "idle"]
    /\ UNCHANGED <<is_windows, is_raspberry_pi, clock, frame>>

\* ErrorRouter.analyze: self.error_history.append(report); return report.
\* analyze returns to its caller, or to fix, which goes on with the report.
AnalyzeAppend(c) ==
    /\ pc[c] = "append"
    /\ error_history' = Append(error_history, frame[c].report)
    /\ since_clear' = Append(since_clear, frame[c].report)
    /\ pc' = [pc EXCEPT ![c] = IF frame[c].op = "fix" THEN "decide" ELSE "idle"]
    /\ UNCHANGED <<is_windows, is_raspberry_pi, clock, frame>>

\* ErrorRouter.get_history(limit)
GetHistory(c, limit) ==
    /\ AtRest(c)
    /\ pc' = [pc EXCEPT ![c] = "idle"]
    /\ frame' = [frame EXCEPT ![c] =
            [NewFrame("get_history", << >>, FALSE, limit)
                EXCEPT !.listing = get_history(error_history, limit)]]
    /\ UNCHANGED <<error_history, since_clear, is_windows, is_raspberry_pi, clock>>

\* clear_history removing one report at a time and stopping early: the newest
\* report stays.
ClearHistoryPartly(c) ==
    /\ AtRest(c)
    /\ error_history' = IF error_history = << >> THEN << >>
                        ELSE <<error_history[Len(error_history)]>>
    /\ since_clear' = << >>
    /\ pc' = [pc EXCEPT ![c] = "idle"]
    /\ frame' = [frame EXCEPT ![c] = NewFrame("clear_history", << >>, FALSE, 0)]
    /\ UNCHANGED <<is_windows, is_raspberry_pi, clock>>

\* ErrorRouter.clear_history
ClearHistory(c) ==
    /\ AtRest(c)
    /\ error_history' = << >>
    /\ since_clear' = << >>
    /\ pc' = [pc EXCEPT ![c] = "idle"]
    /\ frame' = [frame EXCEPT ![c] = NewFrame("clear_history", << >>, FALSE, 0)]
    /\ UNCHANGED <<is_windows, is_raspberry_pi, clock>>

\* ErrorRouter.fix after analyze: the three refusals, else agent.execute_fix.
\* self.agents[report.category] raises KeyError for a category without agent.
FixDecide(c) ==
    /\ pc[c] = "decide"
    /\ LET gate == FixGate(frame[c].report, frame[c].auto_approve)
       IN  IF gate # NoResult THEN Return(c, gate)
           ELSE IF frame[c].report.category \notin RegisteredAgents
           THEN /\ pc' = [pc EXCEPT ![c] = "raised"]
                /\ UNCHANGED frame
           ELSE /\ pc' = [pc EXCEPT ![c] = "execute"]
                /\ frame' = [frame EXCEPT ![c].executes = @ + 1]
    /\ UNCHANGED <<error_history, since_clear, is_windows, is_raspberry_pi, clock>>

(***************************************************************************)
(* execute_fix of the four agents                                          *)
(***************************************************************************)
Executing(c, category) ==
    pc[c] = "execute" /\ frame[c].report.category = category

\* A startswith("Check") no suggestion passes.
StartsWithCheckNever(text) ==
    Head(text) \in {}

\* fix_command.startswith("Check") for the texts suggest_fix builds: every one
\* of them starts with a piece the code spells out.
StartsWithCheck(text) ==
    Head(text) \in {"Check package name and try reinstalling"}

\* execute_fix giving a command that failed one more try.
DependencyExecuteFixRetry(c) ==
    /\ Executing(c, DEPENDENCY)
    /\ LET fix_command == DependencySuggestFix(frame[c].report)
       IN  IF Empty(fix_command) \/ StartsWithCheck(fix_command)
           THEN Return(c, FixResult(FALSE, <<"none">>, NoText,
                                    <<"Could not determine fix command">>))
           ELSE \E outcome \in Outcomes :
                  LET run == RunCommand(outcome)
                  IN  Ran(c, fix_command, run,
                          IF ~run.success /\ frame[c].ran = << >> THEN "execute" ELSE "idle",
                          [frame[c] EXCEPT !.result =
                              FixResult(run.success, fix_command,
                                        IF run.success THEN run.output ELSE NoText,
                                        IF ~run.success THEN run.output ELSE NoText)])
    /\ UNCHANGED <<error_history, since_clear, is_windows, is_raspberry_pi, clock>>

\* DependencyAgent.execute_fix
DependencyExecuteFix(c) ==
    /\ Executing(c, DEPENDENCY)
    /\ LET fix_command == DependencySuggestFix(frame[c].report)
       IN  IF Empty(fix_command) \/ StartsWithCheck(fix_command)
           THEN Return(c, FixResult(FALSE, <<"none">>, NoText,
                                    <<"Could not determine fix command">>))
           ELSE \E outcome \in Outcomes :
                  LET run == RunCommand(outcome)
                  IN  Ran(c, fix_command, run, "idle",
                          [frame[c] EXCEPT !.result =
                              FixResult(run.success, fix_command,
                                        IF run.success THEN run.output ELSE NoText,
                                        IF ~run.success THEN run.output ELSE NoText)])
    /\ UNCHANGED <<error_history, since_clear, is_windows, is_raspberry_pi, clock>>

\* execute_fix going for the port of any Network report that names one.
NetworkExecuteFixAnyPort(c) ==
    /\ Executing(c, NETWORK)
    /\ LET port == ExtractPort(frame[c].report.raw_message)
       IN  IF port = NoInt \/ port = 0
           THEN Return(c, FixResult(FALSE, <<"none">>, NoText,
                                    <<"Manual intervention required">>))
           ELSE /\ pc' = [pc EXCEPT ![c] = "find_process"]
                /\ frame' = [frame EXCEPT ![c].port = port]
    /\ UNCHANGED <<error_history, since_clear, is_windows, is_raspberry_pi, clock>>

\* NetworkAgent.execute_fix, and _fix_port_conflict up to the port it extracts
NetworkExecuteFix(c) ==
    /\ Executing(c, NETWORK)
    /\ LET port == ExtractPort(frame[c].report.raw_message)
       IN  IF frame[c].report.subcategory # "port_in_use"
           THEN Return(c, FixResult(FALSE, <<"none">>, NoText,
                                    <<"Manual intervention required">>))
           ELSE IF port = IntRaises
           THEN /\ pc' = [pc EXCEPT ![c] = "raised"]
                /\ UNCHANGED frame
           ELSE IF port = NoInt \/ port = 0
           THEN Return(c, FixResult(FALSE, <<"none">>, NoText,
                                    <<"Could not extract port number from error">>))
           ELSE /\ pc' = [pc EXCEPT ![c] = "find_process"]
                /\ frame' = [frame EXCEPT ![c].port = port]
    /\ UNCHANGED <<error_history, since_clear, is_windows, is_raspberry_pi, clock>>

\* The command of NetworkAgent._find_process_on_port
FindProcessCommand(port) ==
    IF is_windows THEN <<"netstat -ano | findstr :", ToString(port)>>
    ELSE <<"lsof -t -i:", ToString(port)>>

\* NetworkAgent._find_process_on_port after its command: the process id, or NoInt
FoundProcess(run) ==
    IF ~run.success \/ Empty(run.output) THEN NoInt
    ELSE IF is_windows THEN ListeningPid(run.output)
    ELSE FirstLineInt(run.output)

\* _fix_port_conflict going on to the kill whatever the lookup gave.
NetworkFindProcessThenKill(c) ==
    /\ pc[c] = "find_process"
    /\ \E outcome \in Outcomes :
        LET run == RunCommand(outcome)
            pid == IF run.raised THEN NoInt ELSE FoundProcess(run)
        IN  Ran(c, FindProcessCommand(frame[c].port), run, "kill",
                [frame[c] EXCEPT !.pid = pid])
    /\ UNCHANGED <<error_history, since_clear, is_windows, is_raspberry_pi, clock>>

\* NetworkAgent._fix_port_conflict: pid = self._find_process_on_port(port)
NetworkFindProcess(c) ==
    /\ pc[c] = "find_process"
    /\ \E outcome \in Outcomes :
        LET run == RunCommand(outcome)
            pid == IF run.raised THEN NoInt ELSE FoundProcess(run)
        IN  IF pid = NoInt \/ pid = 0
            THEN Ran(c, FindProcessCommand(frame[c].port), run, "idle",
                     [frame[c] EXCEPT !.result =
                        FixResult(FALSE,
                                  <<"Searched for process on port ", ToString(frame[c].port)>>,
                                  NoText, <<"Could not find process using port">>)])
            ELSE Ran(c, FindProcessCommand(frame[c].port), run, "kill",
                     [frame[c] EXCEPT !.pid = pid])
    /\ UNCHANGED <<error_history, since_clear, is_windows, is_raspberry_pi, clock>>

\* kill_cmd of NetworkAgent._fix_port_conflict
KillCommand(pid) ==
    IF is_windows THEN <<"taskkill /PID ", ToString(pid), " /F">>
    ELSE <<"kill -9 ", ToString(pid)>>

\* _fix_port_conflict taking the process for killed once the command was run.
NetworkKillAssumed(c) ==
    /\ pc[c] = "kill"
    /\ \E outcome \in Outcomes :
        LET run == RunCommand(outcome)
            pid == ToString(frame[c].pid)
            port == ToString(frame[c].port)
        IN  Ran(c, KillCommand(frame[c].pid), run, "idle",
                [frame[c] EXCEPT !.result =
                    FixResult(TRUE, <<"Killed process ", pid, " on port ", port>>,
                              run.output, NoText)])
    /\ UNCHANGED <<error_history, since_clear, is_windows, is_raspberry_pi, clock>>

\* NetworkAgent._fix_port_conflict: the kill command and the result
NetworkKill(c) ==
    /\ pc[c] = "kill"
    /\ \E outcome \in Outcomes :
        LET run == RunCommand(outcome)
            pid == ToString(frame[c].pid)
            port == ToString(frame[c].port)
        IN  Ran(c, KillCommand(frame[c].pid), run, "idle",
                [frame[c] EXCEPT !.result =
                    IF run.success
                    THEN FixResult(TRUE, <<"Killed process ", pid, " on port ", port>>,
                                   run.output, NoText)
                    ELSE FixResult(FALSE, <<"Attempted to kill process ", pid>>,
                                   NoText, run.output)])
    /\ UNCHANGED <<error_history, since_clear, is_windows, is_raspberry_pi, clock>>

\* An error text (tokens separated by one space) as the pieces of a built text.
RECURSIVE Pieces(_)
Pieces(tokens) ==
    IF tokens = << >> THEN << >>
    ELSE IF Len(tokens) = 1 THEN tokens
    ELSE <<tokens[1], " ">> \o Pieces(Tail(tokens))

\* SyntaxAgent._generate_diagnostics (report.raw_message[:500] is the whole
\* message for the texts of this model, except the one with the 5000 digits,
\* which never gets this far).
GenerateDiagnostics(report) ==
    <<"Error Type: ", IF report.subcategory = None \/ report.subcategory = ""
                      THEN "Unknown" ELSE report.subcategory,
      "\nCategory: ", report.category>>
    \o (IF report.file_path # None /\ report.file_path # ""
        THEN <<"\nFile: ", report.file_path>> ELSE << >>)
    \o (IF report.line_number # NoInt /\ report.line_number # 0
        THEN <<"\nLine: ", ToString(report.line_number)>> ELSE << >>)
    \o <<"\n\nRaw Error:\n">> \o Pieces(report.raw_message)

\* SyntaxAgent.execute_fix
SyntaxExecuteFix(c) ==
    /\ Executing(c, SYNTAX)
    /\ Return(c, FixResult(FALSE, <<"diagnostic">>,
                           <<"Suggestion: ">> \o SyntaxSuggestFix(frame[c].report)
                              \o <<"\n\nDiagnostics:\n">>
                              \o GenerateDiagnostics(frame[c].report),
                           <<"Manual code fix required">>))
    /\ UNCHANGED <<error_history, since_clear, is_windows, is_raspberry_pi, clock>>

\* The commands of HardwareAgent._kill_camera_processes
KillCameraCommands ==
    << <<"sudo pkill -f libcamera">>, <<"sudo pkill -f raspistill">>,
       <<"sudo pkill -f raspivid">>, <<"sudo pkill -f picamera">> >>

\* The probes of HardwareAgent._run_diagnostics and the line each one heads
DiagnosticProbes ==
    << [command |-> <<"libcamera-hello --list-cameras 2>&1 || echo 'libcamera not available'">>,
        label |-> "\nCamera check:\n"],
       [command |-> <<"ls /dev/i2c* 2>&1 || echo 'I2C not enabled'">>,
        label |-> "\nI2C devices: "],
       [command |-> <<"ls /dev/spidev* 2>&1 || echo 'SPI not enabled'">>,
        label |-> "\nSPI devices: "],
       [command |-> <<"ls /dev/gpiomem 2>&1 || echo 'GPIO not available'">>,
        label |-> "\nGPIO: "] >>

\* ", ".join(texts) and "\n".join(texts)
RECURSIVE Join(_, _)
Join(sep, texts) ==
    IF texts = << >> THEN << >>
    ELSE IF Len(texts) = 1 THEN texts[1]
    ELSE texts[1] \o <<sep>> \o Join(sep, Tail(texts))

\* The FixResult HardwareAgent.execute_fix ends with when it only diagnoses.
DiagnosticResult(report, lines) ==
    FixResult(FALSE, <<"diagnostic">>,
              <<"Suggestion: ">> \o HardwareSuggestFix(report)
                 \o <<"\n\nDiagnostics:\n">> \o Join("\n", lines),
              <<"Manual hardware intervention may be required">>)

\* HardwareAgent.execute_fix: the branch it takes, and what needs no command
HardwareExecuteFix(c) ==
    /\ Executing(c, HARDWARE)
    /\ LET error == LowerText(frame[c].report.raw_message)
       IN  IF Contains(error, "camera") /\ (Contains(error, "busy") \/ Contains(error, "in use"))
           THEN /\ pc' = [pc EXCEPT ![c] = "kill_camera"]
                /\ frame' = [frame EXCEPT ![c].killed = << >>]
           ELSE IF Contains(error, "gpio") /\ Contains(error, "busy")
           THEN Return(c, FixResult(FALSE, <<"diagnostic">>, NoText,
                    <<"GPIO conflict requires identifying and stopping the conflicting process">>))
           ELSE IF ~is_raspberry_pi
           THEN Return(c, DiagnosticResult(frame[c].report,
                    << <<"WARNING: Not running on Raspberry Pi">>,
                       <<"Hardware features require Raspberry Pi">> >>))
           ELSE /\ pc' = [pc EXCEPT ![c] = "diagnostics"]
                /\ frame' = [frame EXCEPT ![c].lines = << <<"Running on Raspberry Pi">> >>]
    /\ UNCHANGED <<error_history, since_clear, is_windows, is_raspberry_pi, clock>>

\* _kill_camera_processes giving up at the first command that fails.
HardwareKillCameraStopEarly(c) ==
    /\ pc[c] = "kill_camera"
    /\ \E outcome \in Outcomes :
        LET cmd == KillCameraCommands[Len(frame[c].ran) + 1]
            run == RunCommand(outcome)
            killed == IF run.success THEN Append(frame[c].killed, cmd) ELSE frame[c].killed
            last == Len(frame[c].ran) + 1 = Len(KillCameraCommands) \/ ~run.success
        IN  Ran(c, cmd, run, IF last THEN "idle" ELSE "kill_camera",
                [frame[c] EXCEPT
                    !.killed = killed,
                    !.result =
                        IF ~last THEN NoResult
                        ELSE IF killed # << >>
                        THEN FixResult(TRUE,
                                <<"Killed camera processes: ">> \o Join(", ", killed),
                                <<"Camera should now be available">>, NoText)
                        ELSE FixResult(FALSE, <<"Attempted to kill camera processes">>,
                                NoText, <<"No camera processes found to kill">>)])
    /\ UNCHANGED <<error_history, since_clear, is_windows, is_raspberry_pi, clock>>

\* HardwareAgent._kill_camera_processes: one turn of its loop, and after the
\* last command the result
HardwareKillCamera(c) ==
    /\ pc[c] = "kill_camera"
    /\ \E outcome \in Outcomes :
        LET cmd == KillCameraCommands[Len(frame[c].ran) + 1]
            run == RunCommand(outcome)
            killed == IF run.success THEN Append(frame[c].killed, cmd) ELSE frame[c].killed
            last == Len(frame[c].ran) + 1 = Len(KillCameraCommands)
        IN  Ran(c, cmd, run, IF last THEN "idle" ELSE "kill_camera",
                [frame[c] EXCEPT
                    !.killed = killed,
                    !.result =
                        IF ~last THEN NoResult
                        ELSE IF killed # << >>
                        THEN FixResult(TRUE,
                                <<"Killed camera processes: ">> \o Join(", ", killed),
                                <<"Camera should now be available">>, NoText)
                        ELSE FixResult(FALSE, <<"Attempted to kill camera processes">>,
                                NoText, <<"No camera processes found to kill">>)])
    /\ UNCHANGED <<error_history, since_clear, is_windows, is_raspberry_pi, clock>>

\* HardwareAgent._run_diagnostics on a Raspberry Pi: one probe, and after the
\* last one the result of execute_fix
HardwareDiagnostics(c) ==
    /\ pc[c] = "diagnostics"
    /\ \E outcome \in Outcomes :
        LET k == Len(frame[c].ran) + 1
            run == RunCommand(outcome)
            shown == IF run.raised THEN NoText
                     ELSE IF k = 1 THEN First200(run.output) ELSE Strip(run.output)
            lines == Append(frame[c].lines, <<DiagnosticProbes[k].label>> \o shown)
            last == k = Len(DiagnosticProbes)
        IN  Ran(c, DiagnosticProbes[k].command, run, IF last THEN "idle" ELSE "diagnostics",
                [frame[c] EXCEPT
                    !.lines = lines,
                    !.result = IF last THEN DiagnosticResult(frame[c].report, lines)
                               ELSE NoResult])
    /\ UNCHANGED <<error_history, since_clear, is_windows, is_raspberry_pi, clock>>

(***************************************************************************)
(* One caller at a time: analyze and fix over the error texts              *)
(***************************************************************************)
\* The error texts callers submit. Each is a sequence of tokens, read with one
\* space between neighbours; NL is a line break.
Texts == {
    <<"ModuleNotFoundError:", "No module named", "'requests'">>,
    <<"no module named", "requests">>,
    <<"ImportError:", "No module named", "'foo.bar'">>,
    <<"pip", "error:", "metadata-generation-failed">>,
    <<"pip", "error:", "numpy">>,
    <<"package", "foo", "not found">>,
    <<"OSError:", "[WinError 10048]", "address already in use", "(0.0.0.0:8080)">>,
    <<"address already in use", "port:70000">>,
    <<"address already in use", "port:9{5000}">>,
    <<"port", "8000", "in use">>,
    <<"Connection refused">>,
    <<"SyntaxError:", "unexpected EOF", "while parsing">>,
    <<"File \"app.py\", line 3", NL, "IndentationError:", "unexpected indent">>,
    <<"TypeError:", "NoneType", "app.py:12">>,
    <<"camera", "device", "busy">>,
    <<"GPIO", "busy">>,
    <<"camera", "not found">>,
    <<"Permission denied:", "device", "busy">>,
    <<"Permission denied">>,
    <<"Access", "is", "denied">>,
    <<"hello", "world">>,
    <<"camera", "in use">>,
    <<"pip", "version", "conflict">>,
    <<"File \"app.py\", line 9{5000}", NL, "SyntaxError:", "unexpected EOF">> }

\* The router after construction, with `callers` callers that have made no
\* call yet: the history is empty, and each agent has read what the host is.
Start(callers) ==
    /\ error_history = << >>
    /\ since_clear = << >>
    /\ is_windows \in BOOLEAN
    /\ is_raspberry_pi \in BOOLEAN
    /\ clock = 0
    /\ pc = [c \in callers |-> "idle"]
    /\ frame = [c \in callers |-> IdleFrame]

\* The steps every call is made of, once it has been made.
CallSteps(c) ==
    \/ AnalyzeBuild(c)
    \/ AnalyzeAppend(c)
    \/ FixDecide(c)
    \/ DependencyExecuteFix(c)
    \/ NetworkExecuteFix(c)
    \/ NetworkFindProcess(c)
    \/ NetworkKill(c)
    \/ SyntaxExecuteFix(c)
    \/ HardwareExecuteFix(c)
    \/ HardwareKillCamera(c)
    \/ HardwareDiagnostics(c)

\* The one caller of Spec and SpecHist.
OneCaller == {1}

Init == Start(OneCaller)

\* One caller submits the texts, to analyze or to fix, until the history holds
\* MaxHist reports.
Next ==
    \E c \in OneCaller :
        \/ \E error_message \in Texts :
                Len(error_history) < MaxHist /\ CallAnalyze(c, error_message)
        \/ \E error_message \in Texts, auto_approve \in BOOLEAN :
                Len(error_history) < MaxHist /\ CallFix(c, error_message, auto_approve)
        \/ CallSteps(c)

Spec == Init /\ [][Next]_vars

(***************************************************************************)
(* One caller: a long history, its windows, and clear                      *)
(***************************************************************************)
\* The text the caller of SpecHist submits again and again; the reports differ
\* in their timestamps.
HistTexts == { <<"port", "8000", "in use">> }

\* The limits the caller passes to get_history (the route's default is 10).
Limits == 0..MaxLimit

\* One caller makes up to MaxCalls analyze calls, and reads and clears the
\* history in between.
NextHist ==
    \E c \in OneCaller :
        \/ \E error_message \in HistTexts :
                clock < MaxCalls /\ CallAnalyze(c, error_message)
        \/ AnalyzeBuild(c)
        \/ AnalyzeAppend(c)
        \/ \E limit \in Limits : GetHistory(c, limit)
        \/ ClearHistory(c)

SpecHist == Init /\ [][NextHist]_vars

(***************************************************************************)
(* One caller: analyze and fix calls of every kind, reads and clears       *)
(***************************************************************************)
\* The texts the caller of SpecLog submits: a Network report that is not
\* auto_fixable (a fix is denied, or fails in the agent when approved) and a
\* Dependency report whose fix runs a command.
LogTexts == {
    <<"Connection refused">>,
    <<"ModuleNotFoundError:", "No module named", "'requests'">> }

\* The limit the caller of SpecLog passes to get_history.
LogLimits == {MaxLog}

\* One caller makes up to MaxLog analyze and fix calls, and reads and clears
\* the history in between.
NextLog ==
    \E c \in OneCaller :
        \/ \E error_message \in LogTexts :
                clock < MaxLog /\ CallAnalyze(c, error_message)
        \/ \E error_message \in LogTexts, auto_approve \in BOOLEAN :
                clock < MaxLog /\ CallFix(c, error_message, auto_approve)
        \/ AnalyzeBuild(c)
        \/ AnalyzeAppend(c)
        \/ FixDecide(c)
        \/ DependencyExecuteFix(c)
        \/ NetworkExecuteFix(c)
        \/ \E limit \in LogLimits : GetHistory(c, limit)
        \/ ClearHistory(c)

SpecLog == Init /\ [][NextLog]_vars

(***************************************************************************)
(* NetworkAgent.find_available_port                                        *)
(***************************************************************************)
\* The largest port number socket.bind accepts.
MaxPort == 65535

\* The ports the caller of SpecPort starts the search at: the default, and the
\* ports next to the largest one.
StartPorts == {8000} \cup ((MaxPort - MaxAttempts)..MaxPort)

\* A caller invokes find_available_port(start_port, max_attempts).
CallFindAvailablePort(c, start_port, max_attempts) ==
    /\ AtRest(c)
    /\ pc' = [pc EXCEPT ![c] = "probe"]
    /\ frame' = [frame EXCEPT ![c] =
            [NewFrame("find_available_port", << >>, FALSE, 0)
                EXCEPT !.start_port = start_port, !.max_attempts = max_attempts]]
    /\ UNCHANGED <<error_history, since_clear, is_windows, is_raspberry_pi, clock>>

\* One turn of the loop of find_available_port, or its end. bind() raises
\* OverflowError, which check_port_available does not catch, for a port
\* outside 0..MaxPort; any other port is free or is not.
ProbePort(c) ==
    /\ pc[c] = "probe"
    /\ LET offset == Len(frame[c].probed)
           port == frame[c].start_port + offset
       IN  IF offset >= frame[c].max_attempts
           THEN /\ pc' = [pc EXCEPT ![c] = "idle"]
                /\ UNCHANGED frame
           ELSE IF port < 0 \/ port > MaxPort
           THEN /\ pc' = [pc EXCEPT ![c] = "raised"]
                /\ frame' = [frame EXCEPT ![c].probed = Append(@, port)]
           ELSE \E free \in BOOLEAN :
                /\ pc' = [pc EXCEPT ![c] = IF free THEN "idle" ELSE "probe"]
                /\ frame' = [frame EXCEPT ![c].probed = Append(@, port),
                                          ![c].available = Append(@, free),
                                          ![c].found = IF free THEN port ELSE NoInt]
    /\ UNCHANGED <<error_history, since_clear, is_windows, is_raspberry_pi, clock>>

\* One caller looks for an available port, again and again.
NextPort ==
    \E c \in OneCaller :
        \/ \E start_port \in StartPorts, max_attempts \in 0..MaxAttempts :
                CallFindAvailablePort(c, start_port, max_attempts)
        \/ ProbePort(c)

SpecPort == Init /\ [][NextPort]_vars

(***************************************************************************)
(* Several callers on the one router                                       *)
(***************************************************************************)
ConcCallers == 1..NumCallers

\* The texts the concurrent callers submit.
ConcTexts == {
    <<"ModuleNotFoundError:", "No module named", "'requests'">>,
    <<"Permission denied:", "device", "busy">> }

\* The limits the concurrent callers pass to get_history.
ConcLimits == {MaxConcCalls}

\* The calls made so far that have built, or will build, a report.
Analyses == clock + Cardinality({c \in ConcCallers : pc[c] = "analyze"})

InitConc == Start(ConcCallers)

\* NumCallers callers share the router: up to MaxConcCalls analyze calls, and
\* clear_history and get_history calls, in any interleaving of their steps.
NextConc ==
    \E c \in ConcCallers :
        \/ \E error_message \in ConcTexts :
                Analyses < MaxConcCalls /\ CallAnalyze(c, error_message)
        \/ AnalyzeBuild(c)
        \/ AnalyzeAppend(c)
        \/ \E limit \in ConcLimits : GetHistory(c, limit)
        \/ ClearHistory(c)

SpecConc == InitConc /\ [][NextConc]_vars

(***************************************************************************)
(* Several fix calls racing for the process on one port                    *)
(***************************************************************************)
\* The two callers whose fix calls race.
RaceCallers == {"first", "second"}

\* The port-in-use text every racing caller submits.
RaceText == <<"OSError:", "[WinError 10048]", "address already in use", "(0.0.0.0:8080)">>

\* The process that listened on the port has been terminated: the kill command
\* of one of the calls has succeeded.
OwnerGone ==
    \E d \in RaceCallers :
        /\ pc[d] \in {"idle", "raised"}
        /\ Len(frame[d].succeeded) = 2
        /\ frame[d].succeeded[2]

\* _find_process_on_port while others race: once the process is gone, the
\* lookup command finds nothing on the port and reports failure.
RaceFindProcess(c) ==
    /\ NetworkFindProcess(c)
    /\ OwnerGone => frame'[c].succeeded = <<FALSE>>

\* The kill command while others race: once the process is gone, it fails.
RaceKill(c) ==
    /\ NetworkKill(c)
    /\ OwnerGone => ~frame'[c].succeeded[2]

\* The steps of one racing caller: its one fix call, approved, and what the
\* call goes through.
RaceSteps(c) ==
    \/ frame[c].op = "none" /\ CallFix(c, RaceText, TRUE)
    \/ AnalyzeBuild(c)
    \/ AnalyzeAppend(c)
    \/ FixDecide(c)
    \/ NetworkExecuteFix(c)
    \/ RaceFindProcess(c)
    \/ RaceKill(c)

InitRace == Start(RaceCallers)

NextRace == \E c \in RaceCallers : RaceSteps(c)

\* Every call is a thread of its own, and subprocess.run returns (it has a
\* timeout): a call that is at its lookup or at its kill gets that step done.
SpecRace ==
    /\ InitRace
    /\ [][NextRace]_vars
    /\ \A c \in RaceCallers : WF_vars(RaceFindProcess(c)) /\ WF_vars(RaceKill(c))

(***************************************************************************)
(* Properties                                                              *)
(***************************************************************************)
\* The callers of the behaviour at hand.
Callers == DOMAIN pc

\* Every report there is: the ones in the history and the ones analyze has
\* handed to a caller.
Reports ==
    {error_history[i] : i \in 1..Len(error_history)}
        \cup {frame[c].report : c \in {d \in Callers : frame[d].report # NoReport}}

\* Caller c is inside an agent's execute_fix.
InExecuteFix(c) ==
    pc[c] \in {"execute", "find_process", "kill", "kill_camera", "diagnostics"}

\* Caller c's call was fix and has returned a FixResult.
FixReturned(c) ==
    frame[c].op = "fix" /\ pc[c] = "idle" /\ frame[c].result # NoResult

\* C1: a fix call with auto_approve=false whose report has auto_fixable=false
\* never reaches the agent's execute_fix and runs no command.
C1_NoFixWithoutApproval ==
    \A c \in Callers :
        (/\ frame[c].op = "fix"
         /\ frame[c].report # NoReport
         /\ ~frame[c].auto_approve
         /\ ~frame[c].report.auto_fixable)
        => /\ ~InExecuteFix(c)
           /\ frame[c].executes = 0
           /\ frame[c].ran = << >>

\* A fix without approval of a report that has an agent but is not
\* auto-fixable has returned the refusal.
C1_Witness ==
    \E c \in Callers :
        /\ FixReturned(c)
        /\ ~frame[c].auto_approve
        /\ frame[c].report.category \in RegisteredAgents
        /\ ~frame[c].report.auto_fixable
        /\ frame[c].result.action_taken = <<"none">>
        /\ Head(frame[c].result.error) = "Manual fix required: "

\* C2: whatever auto_approve is, a fix call whose report is Unknown or of a
\* category without agent never reaches execute_fix, runs no command and does
\* not raise; it returns a failed FixResult, action_taken "none", whose error
\* names the category problem.
C2_NoAgentNoFix ==
    \A c \in Callers :
        (/\ frame[c].op = "fix"
         /\ frame[c].report # NoReport
         /\ frame[c].report.category \notin RegisteredAgents)
        => /\ ~InExecuteFix(c)
           /\ pc[c] # "raised"
           /\ frame[c].executes = 0
           /\ frame[c].ran = << >>
           /\ pc[c] = "idle" =>
                /\ frame[c].result.success = FALSE
                /\ frame[c].result.action_taken = <<"none">>
                /\ frame[c].result.error =
                        IF frame[c].report.category = UNKNOWN
                        THEN <<"Could not categorize error">>
                        ELSE <<"No agent registered for ", frame[c].report.category>>

\* An approved fix of a Permission report has returned "no agent registered".
C2_Witness ==
    \E c \in Callers :
        /\ FixReturned(c)
        /\ frame[c].auto_approve
        /\ frame[c].report.category = PERMISSION
        /\ frame[c].result.error = <<"No agent registered for ", "permission">>

\* C3: no call ends by raising an exception: every fix (and analyze) call
\* returns, whatever the text, the category, auto_approve and the outcomes of
\* the commands it runs.
C3_NeverRaises == \A c \in Callers : pc[c] # "raised"

\* C4: in every report, auto_fixable=true implies that the report's category
\* has a registered agent.
C4_AutoFixableHasAgent ==
    \A report \in Reports : report.auto_fixable => report.category \in RegisteredAgents

\* The history holds an auto-fixable report (of Hardware, which has an agent).
C4_Witness ==
    \E i \in 1..Len(error_history) :
        error_history[i].auto_fixable /\ error_history[i].category = HARDWARE

\* A step in which caller c's analyze appends its report and returns.
AnalyzeReturns(c) == pc[c] = "append" /\ pc'[c] # "append"

\* The elements of a list.
Range(list) == {list[i] : i \in 1..Len(list)}

\* C5: with callers running analyze concurrently, every analyze call that
\* completes adds its report, whole, to the end of the history and leaves the
\* reports already there alone: after N completed calls (and no clear) the
\* history holds N reports, one per call, each the report its call returned.
C5_NoLostAppend ==
    /\ [](/\ Len(error_history) = Len(since_clear)
          /\ Range(error_history) = Range(since_clear)
          /\ \A i, j \in 1..Len(error_history) :
                error_history[i] = error_history[j] => i = j)
    /\ [][\A c \in Callers :
            AnalyzeReturns(c) => error_history' = Append(error_history, frame[c].report)]_vars

\* Two analyze calls overlapped and both completed: the report built second
\* was appended first, and both are in the history.
C5_Witness ==
    /\ \A c \in Callers : pc[c] = "idle"
    /\ Len(error_history) = 2
    /\ error_history[1].timestamp > error_history[2].timestamp

\* A step in which caller c's call of get_history returns.
GetHistoryReturns(c) ==
    frame'[c].op = "get_history" /\ frame'[c] # frame[c]

\* The last k elements of a list, oldest first.
LastOf(list, k) == [i \in 1..k |-> list[Len(list) - k + i]]

\* C6: with n analyze calls since the last clear, get_history(limit) with
\* limit >= 1 returns the min(limit, n) reports appended last, oldest first.
C6_HistoryWindow ==
    [][\A c \in Callers :
        (GetHistoryReturns(c) /\ frame'[c].limit >= 1)
        => LET n == Len(since_clear)
               k == IF frame'[c].limit < n THEN frame'[c].limit ELSE n
           IN  frame'[c].listing = LastOf(since_clear, k)]_vars

\* After 15 analyze calls get_history(10) has returned the reports 6 to 15.
C6_Witness ==
    \E c \in Callers :
        /\ frame[c].op = "get_history"
        /\ frame[c].limit = 10
        /\ Len(since_clear) = 15
        /\ Len(frame[c].listing) = 10
        /\ \A i \in 1..10 : frame[c].listing[i] = since_clear[5 + i]

\* C7: get_history(limit) with limit >= 0 returns at most limit reports (so
\* get_history(0) returns none).
C7_AtMostLimit ==
    \A c \in Callers :
        (frame[c].op = "get_history" /\ frame[c].limit >= 0)
        => Len(frame[c].listing) <= frame[c].limit

\* A step in which clear_history runs: what has been returned since the last
\* clear is nothing again, and a caller has made the call.
ClearRuns ==
    /\ since_clear' = << >>
    /\ \/ since_clear # << >>
       \/ \E c \in Callers : frame'[c].op = "clear_history" /\ frame'[c] # frame[c]

\* C8: clear_history empties the history in one step, so that right after it
\* get_history returns nothing for any limit; with analyze calls running
\* concurrently, the history holds at all times exactly the reports appended
\* since the last clear, in the order of their append.
C8_AtomicClear ==
    /\ [](error_history = since_clear)
    /\ [][ClearRuns => \A limit \in 0..(MaxLimit + 1) :
                            get_history(error_history', limit) = << >>]_vars

\* A clear ran while an analyze call was between building its report and
\* appending it: the first report built is the only one in the history, the
\* second one built is gone, and every call has returned.
C8_Witness ==
    /\ \A c \in Callers : pc[c] = "idle"
    /\ \E c \in Callers : frame[c].op = "clear_history"
    /\ clock = 2
    /\ Len(error_history) = 1
    /\ error_history[1].timestamp = 0

\* The fields of a report that diagnosis decides.
Diagnosis(report) ==
    <<report.category, report.subcategory, report.suggested_fix, report.auto_fixable>>

DeclaredOrder == <<DEPENDENCY, NETWORK, SYNTAX, HARDWARE, PERMISSION>>

\* Some pattern the catalog lists for `category` matches the text.
HasMatch(category, error_message) ==
    \E k \in 1..Len(PATTERNS) :
        /\ PATTERNS[k].category = category
        /\ \E p \in 1..Len(PATTERNS[k].patterns) :
                ReSearchI(PATTERNS[k].patterns[p], error_message)

\* The reports analyze has just built and is about to append and return.
JustBuilt == {frame[c].report : c \in {d \in Callers : pc[d] = "append"}}

\* C10: the category analyze gives a report is the first one, in the order
\* Dependency, Network, Syntax, Hardware, Permission, that has a matching
\* pattern for the report's text (Unknown when none has).
C10_FirstCategoryWins ==
    \A report \in JustBuilt :
        LET matching == {k \in 1..Len(DeclaredOrder) :
                            HasMatch(DeclaredOrder[k], report.raw_message)}
        IN  IF matching = {} THEN report.category = UNKNOWN
            ELSE \E k \in matching :
                    /\ report.category = DeclaredOrder[k]
                    /\ \A j \in matching : k <= j

\* A text that matches a Hardware and a Permission pattern was analyzed, and
\* its report says Hardware.
C10_Witness ==
    \E report \in JustBuilt :
        /\ HasMatch(HARDWARE, report.raw_message)
        /\ HasMatch(PERMISSION, report.raw_message)
        /\ report.category = HARDWARE

\* No pattern of any category matches the text.
NoMatch(error_message) ==
    \A k \in 1..Len(DeclaredOrder) : ~HasMatch(DeclaredOrder[k], error_message)

C12_OutputXorError ==
    \A c \in Callers :
        FixReturned(c)
        => LET result == frame[c].result
           IN  /\ result.success => result.output # NoText /\ Empty(result.error)
               /\ ~result.success => Empty(result.output)
               /\ ~result.success /\ result.error = NoText
                    => result.action_taken = <<"none">>

\* C13: a fix refused by policy (the category has an agent, the report is not
\* auto-fixable, auto_approve is false) returns success false, action_taken
\* "none", no output, and an error that holds the report's suggested fix
\* word for word.
C13_DenialEmbedsSuggestion ==
    \A c \in Callers :
        (/\ FixReturned(c)
         /\ frame[c].report.category \in RegisteredAgents
         /\ ~frame[c].report.auto_fixable
         /\ ~frame[c].auto_approve)
        => /\ frame[c].result.success = FALSE
           /\ frame[c].result.action_taken = <<"none">>
           /\ frame[c].result.output = NoText
           /\ frame[c].report.suggested_fix # NoText
           /\ frame[c].result.error # NoText
           /\ Len(frame[c].result.error) > Len(frame[c].report.suggested_fix)
           /\ SubSeq(frame[c].result.error,
                     Len(frame[c].result.error) - Len(frame[c].report.suggested_fix) + 1,
                     Len(frame[c].result.error)) = frame[c].report.suggested_fix

\* The fix of "package foo not found" was refused, and the refusal quotes the
\* advice of the Dependency agent.
C13_Witness ==
    \E c \in Callers :
        /\ FixReturned(c)
        /\ ~frame[c].auto_approve
        /\ frame[c].report.category = DEPENDENCY
        /\ frame[c].result.error =
                <<"Manual fix required: ", "Check package name and try reinstalling">>

TimesRun(commands, command) ==
    Cardinality({i \in 1..Len(commands) : commands[i] = command})

\* C15: nothing is retried: no call hands the same command to run_command
\* twice; a Dependency fix runs at most one command; a Network fix runs at
\* most the process lookup, once, and then the kill, once.
C15_NoRetry ==
    \A c \in Callers :
        /\ \A i \in 1..Len(frame[c].ran) : TimesRun(frame[c].ran, frame[c].ran[i]) = 1
        /\ frame[c].report.category = DEPENDENCY => Len(frame[c].ran) <= 1
        /\ frame[c].report.category = NETWORK =>
            /\ Len(frame[c].ran) <= 2
            /\ Len(frame[c].ran) >= 1 => frame[c].ran[1] = FindProcessCommand(frame[c].port)
            /\ Len(frame[c].ran) = 2 => frame[c].ran[2] = KillCommand(frame[c].pid)

\* A Network fix found the process, its kill command failed, and fix returned
\* the failure after those two commands.
C15_Witness ==
    \E c \in Callers :
        /\ FixReturned(c)
        /\ frame[c].report.category = NETWORK
        /\ Len(frame[c].ran) = 2
        /\ frame[c].result.success = FALSE
        /\ Head(frame[c].result.action_taken) = "Attempted to kill process "

\* DependencyAgent.can_auto_fix's safe_fixes, as the claim lists them.
SafeFixes == {"numpy_compile", "metadata_failed", "missing_module"}

\* C16: a Dependency report is auto_fixable exactly when its subcategory is
\* numpy_compile, metadata_failed or missing_module; for a Dependency report of
\* any other or of no subcategory, a fix call without auto_approve runs no
\* command, at any point of the call.
C16_DependencyAllowList ==
    \A c \in Callers :
        (frame[c].report # NoReport /\ frame[c].report.category = DEPENDENCY) =>
            /\ frame[c].report.auto_fixable <=> frame[c].report.subcategory \in SafeFixes
            /\ (/\ frame[c].op = "fix"
                /\ frame[c].report.subcategory \notin SafeFixes
                /\ ~frame[c].auto_approve) =>
                    /\ frame[c].ran = << >>
                    /\ frame[c].executes = 0
                    /\ pc[c] \in {"append", "decide", "idle"}

\* A fix call without auto_approve returned for a Dependency report of no
\* subcategory (a lower-case missing-module text), having run nothing.
C16_Witness ==
    \E c \in Callers :
        /\ FixReturned(c)
        /\ frame[c].report.category = DEPENDENCY
        /\ frame[c].report.subcategory = None
        /\ frame[c].error_message = <<"no module named", "requests">>
        /\ ~frame[c].auto_approve
        /\ ~frame[c].report.auto_fixable
        /\ frame[c].ran = << >>
        /\ ~frame[c].result.success

\* command.startswith("pip install") for the texts DependencyAgent.suggest_fix
\* builds: the pieces they start with that begin with those words.
StartsWithPipInstall(text) ==
    Head(text) \in {"pip install ",
                    "pip install numpy --only-binary=all",
                    "pip install opencv-python-headless --only-binary=all",
                    "pip install --upgrade <package> or check requirements.txt for conflicts"}

\* C17: every command a Dependency fix hands to run_command begins with
\* "pip install", whether auto_approve is set or not; advisory prose never
\* reaches the shell.
C17_OnlyInstallCommands ==
    \A c \in Callers :
        frame[c].report.category = DEPENDENCY =>
            \A i \in 1..Len(frame[c].ran) : StartsWithPipInstall(frame[c].ran[i])

\* The suggestions of DependencyAgent.suggest_fix that begin with "Check".
AdvisorySuggestions == {<<"Check package name and try reinstalling">>}

\* C18: when the suggestion of a Dependency report begins with "Check", a fix
\* call that reaches execute_fix runs no command and returns success=false,
\* action_taken "none", error "Could not determine fix command".
C18_CheckFailsFast ==
    \A c \in Callers :
        (/\ frame[c].op = "fix"
         /\ frame[c].report.category = DEPENDENCY
         /\ frame[c].executes >= 1
         /\ frame[c].report.suggested_fix \in AdvisorySuggestions) =>
            /\ frame[c].ran = << >>
            /\ pc[c] \in {"execute", "idle"}
            /\ FixReturned(c) =>
                frame[c].result = FixResult(FALSE, <<"none">>, NoText,
                                            <<"Could not determine fix command">>)

\* An approved fix of "package foo not found" went through execute_fix and
\* came back with the fail-fast result, nothing having been run.
C18_Witness ==
    \E c \in Callers :
        /\ FixReturned(c)
        /\ frame[c].auto_approve
        /\ frame[c].report.category = DEPENDENCY
        /\ frame[c].report.suggested_fix = <<"Check package name and try reinstalling">>
        /\ frame[c].executes = 1
        /\ frame[c].ran = << >>
        /\ frame[c].result.error = <<"Could not determine fix command">>

\* The text holds a missing-module phrase, in any case of its letters.
MissingModulePhrase(error_message) ==
    \/ Contains(LowerText(error_message), "no module named")
    \/ Contains(LowerText(error_message), "modulenotfounderror")

\* C19: for every text holding a missing-module phrase, the report analyze
\* builds is a Dependency report whose suggestion is "pip install <module>",
\* <module> the top-level module extracted from the text; the standard
\* ModuleNotFoundError text gives Dependency / missing_module /
\* "pip install requests" / auto_fixable.
C19_MissingModuleInstall ==
    \A c \in Callers :
        (pc[c] = "append" /\ MissingModulePhrase(frame[c].error_message)) =>
            /\ frame[c].report.category = DEPENDENCY
            /\ frame[c].report.suggested_fix # NoText
            /\ ExtractModuleName(frame[c].error_message) \notin {None, ""}
            /\ frame[c].report.suggested_fix =
                    <<"pip install ", ExtractModuleName(frame[c].error_message)>>
            /\ frame[c].error_message = <<"ModuleNotFoundError:", "No module named", "'requests'">> =>
                    /\ frame[c].report.subcategory = "missing_module"
                    /\ frame[c].report.suggested_fix = <<"pip install ", "requests">>
                    /\ frame[c].report.auto_fixable

\* C20: a Network report is auto_fixable exactly when its subcategory is
\* port_in_use, and only a port_in_use report has commands run for it: for any
\* other Network report an approved fix runs nothing and returns
\* success=false with action_taken "none".
C20_NetworkOnlyPortInUse ==
    \A c \in Callers :
        (frame[c].report # NoReport /\ frame[c].report.category = NETWORK) =>
            /\ frame[c].report.auto_fixable <=> frame[c].report.subcategory = "port_in_use"
            /\ frame[c].report.subcategory # "port_in_use" =>
                /\ frame[c].ran = << >>
                /\ pc[c] \in {"append", "decide", "execute", "idle"}
                /\ (FixReturned(c) /\ frame[c].auto_approve) =>
                    /\ frame[c].executes = 1
                    /\ ~frame[c].result.success
                    /\ frame[c].result.action_taken = <<"none">>

\* An approved fix of "port 8000 in use", a port-in-use wording that gets no
\* subcategory, went through execute_fix and came back with nothing run.
C20_Witness ==
    \E c \in Callers :
        /\ FixReturned(c)
        /\ frame[c].auto_approve
        /\ frame[c].error_message = <<"port", "8000", "in use">>
        /\ frame[c].report.category = NETWORK
        /\ frame[c].report.subcategory = None
        /\ frame[c].executes = 1
        /\ frame[c].ran = << >>
        /\ frame[c].result = FixResult(FALSE, <<"none">>, NoText,
                                       <<"Manual intervention required">>)

\* Caller c's call takes the step that leads it from `from` to `to`.
Moves(c, from, to) == pc[c] = from /\ pc'[c] = to

\* C21: the port-conflict fix goes extract port, look up owner, kill. With no
\* port extracted nothing runs and the result is failed with action "none";
\* a lookup that fails or gives no process id ends the call with a failed
\* result and no kill; the kill runs only after a lookup that gave a process
\* id, on exactly that id, and its success is the success of the result.
C21_PortFixSequence ==
    [][\A c \in Callers :
        LET report == frame[c].report
            lookup == FindProcessCommand(frame[c].port)
        IN  /\ (Moves(c, "execute", "idle") /\ report.category = NETWORK
                                            /\ report.subcategory = "port_in_use") =>
                /\ ExtractPort(report.raw_message) = NoInt
                /\ frame'[c].ran = << >>
                /\ frame'[c].result = FixResult(FALSE, <<"none">>, NoText,
                                        <<"Could not extract port number from error">>)
            /\ Moves(c, "execute", "find_process") =>
                /\ report.subcategory = "port_in_use"
                /\ frame'[c].port = ExtractPort(report.raw_message)
                /\ frame'[c].port \in 1..65535
                /\ frame'[c].ran = << >>
            /\ Moves(c, "find_process", "idle") =>
                /\ frame'[c].ran = <<lookup>>
                /\ ~frame'[c].result.success
                /\ frame'[c].result.error = <<"Could not find process using port">>
            /\ Moves(c, "find_process", "kill") =>
                /\ frame'[c].ran = <<lookup>>
                /\ frame'[c].pid > 0
                /\ \E outcome \in Outcomes :
                    /\ RunCommand(outcome).success
                    /\ FoundProcess(RunCommand(outcome)) = frame'[c].pid
            /\ pc'[c] = "kill" => pc[c] \in {"find_process", "kill"}
            /\ Moves(c, "kill", "idle") =>
                /\ frame'[c].ran = <<lookup, KillCommand(frame[c].pid)>>
                /\ \E outcome \in Outcomes :
                    LET run == RunCommand(outcome)
                    IN  /\ frame'[c].result.success = run.success
                        /\ run.success => frame'[c].result.output = run.output
                        /\ ~run.success => frame'[c].result.error = run.output
       ]_vars

\* A port-in-use fix found process 4242 on port 8080 and killed it.
C21_Witness ==
    \E c \in Callers :
        /\ FixReturned(c)
        /\ frame[c].report.subcategory = "port_in_use"
        /\ frame[c].port = 8080
        /\ frame[c].pid = 4242
        /\ Len(frame[c].ran) = 2
        /\ frame[c].result.success
        /\ frame[c].result.action_taken = <<"Killed process ", "4242", " on port ", "8080">>

\* The numbers the four patterns of _extract_port find in a text, in the order
\* the patterns are tried (None where a pattern finds nothing).
PortsFound(error_message) ==
    LET low == LowerText(error_message)
    IN  << SearchPortWord(low), SearchColonParen(low),
           SearchWordColon(low, "address"), SearchWordColon(low, "bind") >>

\* The calls in which the Network agent has extracted the port of the text:
\* suggest_fix does for a port-in-use wording, when analyze builds the report.
PortExtracted(c) ==
    /\ frame[c].op \in {"analyze", "fix"}
    /\ pc[c] # "analyze"
    /\ DetectCategory(frame[c].error_message) = NETWORK
    /\ \/ Contains(frame[c].error_message, "10048")
       \/ Contains(LowerText(frame[c].error_message), "address already in use")

\* C22: port extraction gives null or an integer in 1..65535 for every text:
\* the number of the first pattern whose match is in that range, a match
\* outside it being skipped, and otherwise 8000 or 3000 when the text holds
\* that literal, else null.
C22_PortInRange ==
    \A c \in Callers :
        PortExtracted(c) =>
            LET text == frame[c].error_message
                port == ExtractPort(text)
                found == PortsFound(text)
                inrange == {k \in 1..Len(found) :
                                /\ found[k] # None
                                /\ ParseInt(found[k]) \in 1..65535}
            IN  /\ port = NoInt \/ port \in 1..65535
                /\ inrange # {} => port = ParseInt(found[Min(inrange)])
                /\ inrange = {} =>
                    port = IF Contains(text, "8000") THEN 8000
                           ELSE IF Contains(text, "3000") THEN 3000
                           ELSE NoInt

\* The text says, in any case of its letters, that something is busy or in use.
BusyOrInUse(error_message) ==
    \/ Contains(LowerText(error_message), "busy")
    \/ Contains(LowerText(error_message), "in use")

\* C23: a Hardware report is auto_fixable exactly when its text holds "busy"
\* or "in use"; for every other Hardware report a fix call without
\* auto_approve runs no command, at any point of the call.
C23_HardwareBusyOnly ==
    \A c \in Callers :
        (frame[c].report # NoReport /\ frame[c].report.category = HARDWARE) =>
            /\ frame[c].report.auto_fixable <=> BusyOrInUse(frame[c].report.raw_message)
            /\ (/\ frame[c].op = "fix"
                /\ ~BusyOrInUse(frame[c].report.raw_message)
                /\ ~frame[c].auto_approve) =>
                    /\ frame[c].ran = << >>
                    /\ frame[c].executes = 0
                    /\ pc[c] \in {"append", "decide", "idle"}

\* A fix call without auto_approve returned for "camera not found", a Hardware
\* report that is not auto_fixable, having run nothing.
C23_Witness ==
    \E c \in Callers :
        /\ FixReturned(c)
        /\ frame[c].error_message = <<"camera", "not found">>
        /\ frame[c].report.category = HARDWARE
        /\ ~frame[c].report.auto_fixable
        /\ ~frame[c].auto_approve
        /\ frame[c].ran = << >>
        /\ frame[c].executes = 0
        /\ ~frame[c].result.success

\* The commands of `commands` that run_command reported success for, in order.
RECURSIVE SucceededOf(_, _)
SucceededOf(commands, oks) ==
    IF commands = << >> THEN << >>
    ELSE (IF Head(oks) THEN <<Head(commands)>> ELSE << >>)
            \o SucceededOf(Tail(commands), Tail(oks))

\* The text of a camera-busy report, and of a GPIO-busy one that is not.
CameraBusy(error_message) ==
    Contains(LowerText(error_message), "camera") /\ BusyOrInUse(error_message)
GpioBusy(error_message) ==
    /\ ~CameraBusy(error_message)
    /\ Contains(LowerText(error_message), "gpio")
    /\ Contains(LowerText(error_message), "busy")

\* C24: for a camera-busy Hardware report execute_fix runs the four kill
\* commands of its list in order, goes on after a failure, and returns
\* success exactly when one of them succeeded, action_taken naming those that
\* did; for a GPIO-busy report it runs nothing and returns success=false.
C24_CameraKillsAll ==
    \A c \in Callers :
        (frame[c].op = "fix" /\ frame[c].report.category = HARDWARE
                            /\ frame[c].executes >= 1) =>
            /\ CameraBusy(frame[c].report.raw_message) =>
                /\ Len(frame[c].ran) <= Len(KillCameraCommands)
                /\ frame[c].ran = SubSeq(KillCameraCommands, 1, Len(frame[c].ran))
                /\ pc[c] \in {"execute", "kill_camera", "idle"}
                /\ FixReturned(c) =>
                    LET done == SucceededOf(frame[c].ran, frame[c].succeeded)
                    IN  /\ frame[c].ran = KillCameraCommands
                        /\ frame[c].result.success <=> done # << >>
                        /\ frame[c].result.success =>
                            frame[c].result.action_taken =
                                <<"Killed camera processes: ">> \o Join(", ", done)
            /\ GpioBusy(frame[c].report.raw_message) =>
                /\ frame[c].ran = << >>
                /\ pc[c] \in {"execute", "idle"}
                /\ FixReturned(c) => ~frame[c].result.success

\* A camera-busy fix whose first kill command failed ran all four and
\* returned success, naming the two that succeeded.
C24_Witness ==
    \E c \in Callers :
        /\ FixReturned(c)
        /\ CameraBusy(frame[c].report.raw_message)
        /\ frame[c].ran = KillCameraCommands
        /\ frame[c].succeeded = <<FALSE, TRUE, FALSE, TRUE>>
        /\ frame[c].result.success
        /\ frame[c].result.action_taken =
            <<"Killed camera processes: ", "sudo pkill -f raspistill", ", ",
              "sudo pkill -f picamera">>

\* C25: when approved fix calls race on one port-in-use text, none raises and
\* all of them end having returned a FixResult, however their lookups and
\* kills interleave; a lookup that runs once the owning process is terminated
\* makes its call return success=false, "Could not find process using port",
\* and a kill that runs once the process is gone makes its call return
\* success=false.
C25_RaceEndsInResults ==
    /\ [](\A c \in Callers :
            /\ pc[c] # "raised"
            /\ (pc[c] = "idle" /\ frame[c].op = "fix") => frame[c].result # NoResult)
    /\ [][\A c \in Callers :
            /\ (OwnerGone /\ pc[c] = "find_process" /\ pc'[c] # "find_process") =>
                /\ pc'[c] = "idle"
                /\ ~frame'[c].result.success
                /\ frame'[c].result.error = <<"Could not find process using port">>
                /\ Len(frame'[c].ran) = 1
            /\ (OwnerGone /\ pc[c] = "kill" /\ pc'[c] # "kill") =>
                /\ pc'[c] = "idle"
                /\ frame'[c].result # NoResult
                /\ ~frame'[c].result.success
       ]_vars
    /\ \A c \in RaceCallers : (pc[c] \in {"find_process", "kill"}) ~> FixReturned(c)

\* Two calls both found process 4242 before either killed it: the first to
\* kill succeeded, the other's kill failed, and both have returned.
C25_Witness ==
    \E c, d \in Callers :
        /\ c # d
        /\ FixReturned(c) /\ FixReturned(d)
        /\ frame[c].pid = 4242 /\ frame[d].pid = 4242
        /\ frame[c].succeeded = <<TRUE, TRUE>>
        /\ frame[c].result.success
        /\ frame[d].succeeded = <<TRUE, FALSE>>
        /\ ~frame[d].result.success
        /\ Head(frame[d].result.action_taken) = "Attempted to kill process "

\* The category of the report has an agent, and the fix is allowed to run.
Delegates(report, auto_approve) ==
    /\ report.category \in {DEPENDENCY, NETWORK, SYNTAX, HARDWARE}
    /\ report.auto_fixable \/ auto_approve

\* The FixResult is one of the refusals fix builds itself.
Refusal(result) ==
    /\ ~result.success
    /\ result.action_taken = <<"none">>
    /\ result.output = NoText
    /\ Head(result.error) \in {"Could not categorize error", "No agent registered for ",
                               "Manual fix required: "}

C28_FindAvailablePort ==
    \A c \in Callers :
        frame[c].op = "find_available_port" =>
            LET probed == frame[c].probed
                available == frame[c].available
            IN  /\ pc[c] # "raised"
                /\ Len(probed) <= frame[c].max_attempts
                /\ \A i \in 1..Len(probed) :
                        /\ probed[i] = frame[c].start_port + i - 1
                        /\ probed[i] <= 65535
                /\ Len(available) = Len(probed)
                /\ \A i \in 1..(Len(available) - 1) : ~available[i]
                /\ pc[c] = "idle" =>
                    IF frame[c].found = NoInt
                    THEN /\ Len(probed) = frame[c].max_attempts
                         /\ \A i \in 1..Len(available) : ~available[i]
                    ELSE /\ probed # << >>
                         /\ frame[c].found = probed[Len(probed)]
                         /\ available[Len(available)]
                         /\ frame[c].found < frame[c].start_port + frame[c].max_attempts
                         /\ frame[c].found <= 65535

\* C29: a report analyze returns carries a suggestion exactly when its
\* category is Dependency, Network, Syntax or Hardware, the categories with a
\* registered agent; Permission and Unknown reports carry none.
C29_SuggestionIffAgent ==
    [][\A c \in Callers :
        AnalyzeReturns(c) =>
            /\ frame[c].report.suggested_fix # NoText
                <=> frame[c].report.category \in {DEPENDENCY, NETWORK, SYNTAX, HARDWARE}
            /\ frame[c].report.category \in {PERMISSION, UNKNOWN}
                => frame[c].report.suggested_fix = NoText
            /\ frame[c].report.suggested_fix # NoText
                => ~Empty(frame[c].report.suggested_fix)
      ]_vars

\* analyze returned a Permission report, which has no suggestion.
C29_Witness ==
    \E c \in Callers :
        /\ frame[c].op = "analyze" /\ pc[c] = "idle"
        /\ frame[c].error_message = <<"Permission denied">>
        /\ frame[c].report.category = PERMISSION
        /\ frame[c].report.suggested_fix = NoText
        /\ error_history = <<frame[c].report>>

\* C30: the Dependency agent runs no install command for a package it could
\* not identify: when neither a module name nor a package name can be
\* extracted from the text, a fix call runs no command and, once it has
\* returned, has failed.
C30_NoInstallOfNothing ==
    \A c \in Callers :
        (/\ frame[c].op = "fix"
         /\ frame[c].report.category = DEPENDENCY
         /\ ExtractModuleName(frame[c].report.raw_message) \in {None, ""}
         /\ ExtractPackageName(frame[c].report.raw_message) \in {None, ""}) =>
            /\ frame[c].ran = << >>
            /\ FixReturned(c) => ~frame[c].result.success

====
